---- MODULE Spec2Model ----
(***************************************************************************)
(* Credential store (auth-profiles), profile order resolver, OAuth refresh *)
(* and the embedded agent-run orchestrator of moltbot, as state machines.  *)
(*                                                                         *)
(* The specifications share the variables below:                           *)
(*   SpecRun    one runEmbeddedPiAgent retry loop against the store files  *)
(*   SpecStore  several OS processes mutating one auth-profiles.json       *)
(*   SpecLanes  requests of several conversations through the lane queues  *)
(*   SpecWaiters, SpecRegistry  the run and the callers of its registry    *)
(*   SpecCooldown, SpecMarks, SpecOrder, SpecSync, SpecMigrate,            *)
(*   SpecResolve  functions of the store applied on their own              *)
(*   SpecMask, SpecCommands  key masking and the chat command handler      *)
(*   SpecDebounce  the message debouncer of the example bot                *)
(*   FairLanes, FairDebounce  the same with lanes and timers that go on    *)
(***************************************************************************)
EXTENDS Integers, Sequences, FiniteSets, TLC

(***************************************************************************)
(* Bounds of the model                                                     *)
(***************************************************************************)
\* clock ticks one run may see
MaxTicks == 1
\* requests that arrive
MaxRequests == 3
\* entries the global lane runs at once
MaxConcurrent == 2
\* error counts the cooldown schedule is computed for
MaxErrorCount == 60
\* usage marks one caller makes in a row, and the clock steps between them
MaxCalls == 4
MaxMarkTicks == 2
\* loads of the store one process makes in a row
MaxLoads == 3
\* characters of the longest secret shown
MaxKeyLen == 40
\* messages that arrive at the debouncer, and the debounce window in clock steps
MaxMessages == 3
WindowTicks == 2

(***************************************************************************)
(* Values                                                                  *)
(***************************************************************************)
Undef == 0 - 1
None == "none"

\* store.profiles keys in insertion order (Object.entries order)
ProfileIds == <<"p:a", "p:oauth1", "p:b">>
ProfileSet == {ProfileIds[i] : i \in 1..Len(ProfileIds)}
Providers == {"p"}

\* agent directories: the default one (resolveClawdbotAgentDir()) and another
DefaultDir == "default"
OtherDir == "other"
Dirs == {DefaultDir, OtherDir}

Levels == {"off", "low", "high"}
\* raw entries of an error text: the thinking levels and one unknown word
Tokens == Levels \cup {"bogus"}

NoCred == [absent |-> TRUE]
NoStats == [absent |-> TRUE]
Missing == [missing |-> TRUE]
NoMsg == [nomsg |-> TRUE]

TickMs == 15 * 1000
StartMs == 100 * 1000

Min(a, b) == IF a < b THEN a ELSE b
Max(a, b) == IF a > b THEN a ELSE b

RECURSIVE Pow(_, _)
Pow(b, e) == IF e = 0 THEN 1 ELSE b * Pow(b, e - 1)

Range(s) == {s[i] : i \in 1..Len(s)}

Includes(s, x) == x \in Range(s)

(***************************************************************************)
(* Credential store: data                                                  *)
(***************************************************************************)
CredOf(id) ==
  CASE id = "p:a" -> [type |-> "api_key", provider |-> "p", expires |-> 0]
    [] id = "p:oauth1" -> [type |-> "oauth", provider |-> "p", expires |-> StartMs * 100]
    [] OTHER -> [type |-> "api_key", provider |-> "p", expires |-> 0]

EmptyStore ==
  [profiles |-> [id \in ProfileSet |-> NoCred],
   lastGood |-> [q \in Providers |-> None],
   usageStats |-> [id \in ProfileSet |-> NoStats]]

StoreWith(present) ==
  [EmptyStore EXCEPT !.profiles = [id \in ProfileSet |->
                                     IF id \in present THEN CredOf(id) ELSE NoCred]]

HasProfile(store, id) == id \in ProfileSet /\ store.profiles[id] # NoCred

StatsOf(store, id) ==
  IF store.usageStats[id] = NoStats
    THEN [lastUsed |-> Undef, errorCount |-> Undef, cooldownUntil |-> Undef]
    ELSE store.usageStats[id]

\* the schedule without its cap of one hour
calculateAuthProfileCooldownMs_NoCap(errorCount) ==
  LET normalized == Max(1, errorCount)
  IN 60 * 1000 * Pow(5, Min(normalized - 1, 3))

\* 60 * 1000 * 5 ** Math.min(normalized - 1, 3), capped at one hour
calculateAuthProfileCooldownMs(errorCount) ==
  LET normalized == Max(1, errorCount)
  IN Min(60 * 60 * 1000, 60 * 1000 * Pow(5, Min(normalized - 1, 3)))

\* the updater closures of markAuthProfileUsed / Cooldown / Good and
\* clearAuthProfileCooldown: [save |-> the closure's result, store |-> the store after it]
UsedUpdater(store, id, t) ==
  IF ~HasProfile(store, id) THEN [save |-> FALSE, store |-> store]
  ELSE [save |-> TRUE,
        store |-> [store EXCEPT !.usageStats[id] =
                     [lastUsed |-> t, errorCount |-> 0, cooldownUntil |-> Undef]]]

\* the updater that starts counting again once the earlier cooldown is over
CooldownUpdater_ResetOnExpiry(store, id, t) ==
  IF ~HasProfile(store, id) THEN [save |-> FALSE, store |-> store]
  ELSE LET existing == StatsOf(store, id)
           errorCount == IF existing.errorCount = Undef \/ existing.cooldownUntil < t
                           THEN 1 ELSE existing.errorCount + 1
           backoffMs == calculateAuthProfileCooldownMs(errorCount)
       IN [save |-> TRUE,
           store |-> [store EXCEPT !.usageStats[id] =
                        [lastUsed |-> existing.lastUsed,
                         errorCount |-> errorCount,
                         cooldownUntil |-> t + backoffMs]]]

CooldownUpdater(store, id, t) ==
  IF ~HasProfile(store, id) THEN [save |-> FALSE, store |-> store]
  ELSE LET existing == StatsOf(store, id)
           errorCount == (IF existing.errorCount = Undef THEN 0 ELSE existing.errorCount) + 1
           backoffMs == calculateAuthProfileCooldownMs(errorCount)
       IN [save |-> TRUE,
           store |-> [store EXCEPT !.usageStats[id] =
                        [lastUsed |-> existing.lastUsed,
                         errorCount |-> errorCount,
                         cooldownUntil |-> t + backoffMs]]]

GoodUpdater(store, provider, id) ==
  IF ~HasProfile(store, id) \/ store.profiles[id].provider # provider
    THEN [save |-> FALSE, store |-> store]
    ELSE [save |-> TRUE, store |-> [store EXCEPT !.lastGood[provider] = id]]

ClearUpdater(store, id) ==
  IF store.usageStats[id] = NoStats THEN [save |-> FALSE, store |-> store]
  ELSE [save |-> TRUE,
        store |-> [store EXCEPT !.usageStats[id] =
                     [lastUsed |-> store.usageStats[id].lastUsed,
                      errorCount |-> 0, cooldownUntil |-> Undef]]]

\* no profile counts as in cooldown
isProfileInCooldown_Never(store, id, t) == FALSE

\* isProfileInCooldown: a cooldownUntil of 0 or undefined is no cooldown
isProfileInCooldown(store, id, t) ==
  LET stats == StatsOf(store, id)
  IN IF stats.cooldownUntil = Undef \/ stats.cooldownUntil = 0 THEN FALSE
     ELSE t < stats.cooldownUntil

(***************************************************************************)
(* Profile order resolver                                                  *)
(***************************************************************************)
NoOrder == [absent |-> TRUE]
NoCfgProfile == [absent |-> TRUE]
NoConfig == [order |-> NoOrder, profiles |-> [id \in ProfileSet |-> NoCfgProfile]]

\* Array.prototype.filter: the entries of s that are in the set keep, in order
Filter(s, keep) ==
  LET F[i \in 0..Len(s)] ==
        IF i = 0 THEN <<>>
        ELSE IF s[i] \in keep THEN Append(F[i - 1], s[i]) ELSE F[i - 1]
  IN F[Len(s)]

\* the list with its repeated entries left in
Dedupe_Keep(s) == s

\* the loop "if (!deduped.includes(entry)) deduped.push(entry)"
Dedupe(s) ==
  LET D[i \in 0..Len(s)] ==
        IF i = 0 THEN <<>>
        ELSE IF Includes(D[i - 1], s[i]) THEN D[i - 1] ELSE Append(D[i - 1], s[i])
  IN D[Len(s)]

MaxOf(S) == CHOOSE m \in S : \A n \in S : n <= m

\* Array.prototype.sort (stable) with the comparator key[a] - key[b]: x goes
\* right after the last entry whose key is not greater
InsertStable(sorted, x, key) ==
  LET k == MaxOf({j \in 1..Len(sorted) : key[sorted[j]] <= key[x]} \cup {0})
  IN SubSeq(sorted, 1, k) \o <<x>> \o SubSeq(sorted, k + 1, Len(sorted))

StableSort(s, key) ==
  LET S[i \in 0..Len(s)] ==
        IF i = 0 THEN <<>> ELSE InsertStable(S[i - 1], s[i], key)
  IN S[Len(s)]

listProfilesForProvider(store, provider) ==
  Filter(ProfileIds, {id \in ProfileSet : HasProfile(store, id)
                                            /\ store.profiles[id].provider = provider})

\* every type scores the same
typeScore_Flat(store, id) == 0

typeScore(store, id) ==
  IF ~HasProfile(store, id) THEN 3
  ELSE CASE store.profiles[id].type = "oauth" -> 0
         [] store.profiles[id].type = "token" -> 1
         [] store.profiles[id].type = "api_key" -> 2
         [] OTHER -> 3

lastUsedOrZero(store, id) ==
  IF id \notin ProfileSet \/ StatsOf(store, id).lastUsed = Undef THEN 0
  ELSE StatsOf(store, id).lastUsed

cooldownUntilOrNow(store, id, t) ==
  IF id \notin ProfileSet \/ StatsOf(store, id).cooldownUntil = Undef THEN t
  ELSE StatsOf(store, id).cooldownUntil

\* The comparator of the available profiles orders by type first and by
\* lastUsed among equal types: with a stable sort, that is the sort by
\* lastUsed followed by the sort by type.
orderProfilesByMode(order, store, t) ==
  LET ids == Range(order)
      cooling == {id \in ids : id \in ProfileSet /\ isProfileInCooldown(store, id, t)}
      available == Filter(order, ids \ cooling)
      inCooldown == Filter(order, cooling)
      sorted == StableSort(StableSort(available, [id \in ids |-> lastUsedOrZero(store, id)]),
                           [id \in ids |-> typeScore(store, id)])
      cooldownSorted == StableSort(inCooldown, [id \in ids |-> cooldownUntilOrNow(store, id, t)])
  IN sorted \o cooldownSorted

PreferredFirst(list, preferredProfile) ==
  IF preferredProfile # None /\ Includes(list, preferredProfile)
    THEN <<preferredProfile>> \o Filter(list, Range(list) \ {preferredProfile})
    ELSE list

resolveAuthProfileOrder(cfg, store, provider, preferredProfile, t) ==
  LET configuredOrder == cfg.order
      explicitProfiles == Filter(ProfileIds, {id \in ProfileSet :
                                     cfg.profiles[id] # NoCfgProfile
                                       /\ cfg.profiles[id].provider = provider})
      baseOrder == IF configuredOrder # NoOrder THEN configuredOrder
                   ELSE IF Len(explicitProfiles) > 0 THEN explicitProfiles
                        ELSE listProfilesForProvider(store, provider)
      filtered == Filter(baseOrder, {id \in Range(baseOrder) :
                                       HasProfile(store, id) => store.profiles[id].provider = provider})
      deduped == Dedupe(filtered)
  IN IF Len(baseOrder) = 0 THEN <<>>
     ELSE IF configuredOrder # NoOrder /\ Len(configuredOrder) > 0
            THEN PreferredFirst(deduped, preferredProfile)
            ELSE PreferredFirst(orderProfilesByMode(deduped, store, t), preferredProfile)

(***************************************************************************)
(* State                                                                   *)
(***************************************************************************)
VARIABLES
  files,              \* auth-profiles.json of each agent directory (or Missing)
  now,                \* Date.now()
  ticks,              \* clock steps taken
  pc,                 \* position of the run: init, loop, prompt, done
  agentDir,           \* agentDir of the run (params.agentDir ?? default)
  fallbackConfigured, \* config.agent.model.fallbacks is non-empty
  explicitProfileId,  \* params.authProfileId, or None
  initialThinkLevel,  \* params.thinkLevel ?? "off"
  authStore,          \* the run's in-memory store
  profileCandidates,
  profileIndex,
  thinkLevel,
  attemptedThinking,
  lastProfileId,
  aborted,
  timedOut,
  runResult,          \* how the run ended
  registered,         \* ACTIVE_EMBEDDED_RUNS holds the run's sessionId
  timers,             \* the attempt's timers that are set and have not fired
  waiters,            \* EMBEDDED_RUN_WAITERS of the run's sessionId
  waitResult,         \* each waiter: idle, pending, or what its promise resolved to
  usedLevels,         \* history: thinking levels attempted so far in the run
  keyFailed,          \* history: the candidates (by index) whose key resolution threw
  startedBy,          \* history: what started the current attempt
  prev,               \* history: the attempt classified last and the store before it
  lockHolder,         \* the process holding the lock on auth-profiles.json, or None
  spc,                \* position of each process in its store operation
  sop,                \* the store operation of each process
  smem,               \* each process's in-memory store (the caller's copy)
  sfresh,             \* the store a process re-read under the lock
  sres,               \* what the operation of each process came to
  lastWrite,          \* history: the last write to the file, and whether its writer held the lock
  tainted,            \* history: some write was made without the lock
  expected,           \* history: the store with every committed mutation applied in order
  refreshLog,         \* history: the calls of the provider's token refresh
  rstate,             \* each request: new, squeued, gqueued, running, done
  rparams,            \* each request's sessionKey, sessionId and kind
  laneQueue,          \* the waiting entries of each lane, in arrival order
  laneActive,         \* the entries of each lane whose task is running
  lastCall,           \* history: the last abort or steer call, its result and where the run was
  steered,            \* history: a steer text was handed to an attempt
  callIn,             \* the arguments of the function applied, as a record
  callOut             \* what the function returned, or NoCall before it returns

worldVars == <<files, now, ticks>>
paramVars == <<agentDir, fallbackConfigured, explicitProfileId, initialThinkLevel>>
histVars == <<usedLevels>>
runVars == <<pc, paramVars, authStore, profileCandidates, profileIndex, thinkLevel,
             attemptedThinking, lastProfileId, aborted, timedOut, runResult, registered,
             timers, waiters, waitResult, histVars, keyFailed, startedBy, prev>>
storeVars == <<lockHolder, spc, sop, smem, sfresh, sres, lastWrite, tainted, expected,
               refreshLog>>
laneVars == <<rstate, rparams, laneQueue, laneActive>>
callVars == <<lastCall, steered>>
pureVars == <<callIn, callOut>>
\* what the run, the store processes and the lanes each leave alone
nonRunVars == <<storeVars, laneVars, pureVars, callVars>>
nonStoreVars == <<runVars, laneVars, pureVars, callVars>>
nonLaneVars == <<worldVars, runVars, storeVars, callVars, pureVars>>
vars == <<worldVars, runVars, storeVars, laneVars, pureVars, callVars>>

(***************************************************************************)
(* Store mutations as the run sees them                                    *)
(***************************************************************************)
\* ensureAuthStoreFile: an absent file is created empty
ensureAuthStoreFile(fs, dir) ==
  IF fs[dir] = Missing THEN [fs EXCEPT ![dir] = EmptyStore] ELSE fs

\* the updater closure of one store mutation, applied to a store
Update(op, store) ==
  CASE op.kind = "used" -> UsedUpdater(store, op.id, op.t)
    [] op.kind = "cooldown" -> CooldownUpdater(store, op.id, op.t)
    [] op.kind = "good" -> GoodUpdater(store, op.provider, op.id)
    [] OTHER -> ClearUpdater(store, op.id)

UsedOp(id, t) == [kind |-> "used", id |-> id, t |-> t, provider |-> None]
CooldownOp(id, t) == [kind |-> "cooldown", id |-> id, t |-> t, provider |-> None]
GoodOp(provider, id) == [kind |-> "good", id |-> id, t |-> 0, provider |-> provider]
ClearOp(id) == [kind |-> "clear", id |-> id, t |-> 0, provider |-> None]

\* updateAuthProfileStoreWithLock, run to its end without another process in
\* between: null (ok = FALSE) when the lock is not acquired, else the store
\* re-read under the lock after the updater, saved if the updater said so
updateAuthProfileStoreWithLock(fs, dir, op, lockOk) ==
  LET fs1 == ensureAuthStoreFile(fs, dir)
      r == Update(op, fs1[dir])
  IN IF lockOk
       THEN [ok |-> TRUE, store |-> r.store,
             files |-> IF r.save THEN [fs1 EXCEPT ![dir] = r.store] ELSE fs1]
       ELSE [ok |-> FALSE, store |-> fs1[dir], files |-> fs1]

\* the body shared by markAuthProfileUsed / Cooldown / Good and
\* clearAuthProfileCooldown: syncAuthProfileStore on success, else the same
\* mutation on the caller's copy, saved without the lock
MarkWith(fs, mem, dir, op, lockOk) ==
  LET u == updateAuthProfileStoreWithLock(fs, dir, op, lockOk)
      r == Update(op, mem)
  IN IF u.ok THEN [files |-> u.files, mem |-> u.store]
     ELSE IF r.save THEN [files |-> [u.files EXCEPT ![dir] = r.store], mem |-> r.store]
          ELSE [files |-> u.files, mem |-> mem]

markAuthProfileUsed(fs, mem, dir, id, t, lockOk) ==
  MarkWith(fs, mem, dir, UsedOp(id, t), lockOk)

markAuthProfileCooldown(fs, mem, dir, id, t, lockOk) ==
  MarkWith(fs, mem, dir, CooldownOp(id, t), lockOk)

markAuthProfileGood(fs, mem, dir, provider, id, lockOk) ==
  MarkWith(fs, mem, dir, GoodOp(provider, id), lockOk)

clearAuthProfileCooldown(fs, mem, dir, id, lockOk) ==
  MarkWith(fs, mem, dir, ClearOp(id), lockOk)

\* the agent directory the run's mark calls resolve: they pass no agentDir,
\* so resolveAuthStorePath(undefined) is the default directory
RunMarkDir(dir) == DefaultDir


(***************************************************************************)
(* Error texts and their classification (pi-embedded-helpers)              *)
(***************************************************************************)
\* An error text, as the substring tests see it: which of the three
\* classifiers match it and the list after "supported values are:".
\* the lists of values an error text may name after "supported values are:"
SupportedLists == {<<>>, <<"low">>, <<"bogus", "high">>, <<"off", "low">>}

\* An error text, by what the classifiers find in it.  A text may match
\* several classifiers at once; a text that names supported values matches
\* none of them, or the auth classifier.
ErrMsgs ==
  [overflow : BOOLEAN, auth : BOOLEAN, rate : BOOLEAN, supported : {<<>>}]
    \cup [overflow : {FALSE}, auth : {FALSE}, rate : {FALSE}, supported : SupportedLists]
    \cup [overflow : {FALSE}, auth : {TRUE}, rate : {FALSE}, supported : {<<"low">>}]

\* What one attempt reports: session.prompt threw (thrown), or the last
\* assistant message of the snapshot with its stopReason and errorMessage.
Outcomes ==
  [thrown : {TRUE}, stop : {"none"}, msg : ErrMsgs]
    \cup [thrown : {FALSE}, stop : {"error"}, msg : ErrMsgs]
    \cup [thrown : {FALSE}, stop : {"stop", "aborted", "none"}, msg : {NoMsg}]

\* the text of promptError, and lastAssistant.errorMessage
PromptMsg(o) == IF o.thrown THEN o.msg ELSE NoMsg
AssistantMsg(o) == IF o.thrown THEN NoMsg ELSE o.msg

isContextOverflowError(msg) == msg # NoMsg /\ msg.overflow
isAuthErrorMessage(msg) == msg # NoMsg /\ msg.auth
isRateLimitErrorMessage(msg) == msg # NoMsg /\ msg.rate
isAuthAssistantError(o) == o.stop = "error" /\ isAuthErrorMessage(AssistantMsg(o))
isRateLimitAssistantError(o) == o.stop = "error" /\ isRateLimitErrorMessage(AssistantMsg(o))

\* formatAssistantErrorText: undefined, the history-reset text, or the error text
formatAssistantErrorText(o) ==
  IF o.stop # "error" THEN None
  ELSE IF isContextOverflowError(AssistantMsg(o)) THEN "reset"
  ELSE "error"

\* normalizeThinkLevel: a known level, or undefined
normalizeThinkLevel(tok) == IF tok \in Levels THEN tok ELSE None

\* mutant: the attempted set is not consulted
pickFallbackThinkingLevel_IgnoresAttempted(msg, attempted) ==
  IF msg = NoMsg THEN None
  ELSE LET hits == {i \in 1..Len(msg.supported) : normalizeThinkLevel(msg.supported[i]) # None}
       IN IF hits = {} THEN None
          ELSE normalizeThinkLevel(msg.supported[CHOOSE i \in hits : \A j \in hits : i <= j])

\* the first supported value that normalizes and was not attempted yet
pickFallbackThinkingLevel(msg, attempted) ==
  IF msg = NoMsg THEN None
  ELSE LET ok(i) == normalizeThinkLevel(msg.supported[i]) # None
                      /\ normalizeThinkLevel(msg.supported[i]) \notin attempted
           hits == {i \in 1..Len(msg.supported) : ok(i)}
       IN IF hits = {} THEN None
          ELSE normalizeThinkLevel(msg.supported[CHOOSE i \in hits : \A j \in hits : i <= j])

(***************************************************************************)
(* The run: runEmbeddedPiAgent                                             *)
(***************************************************************************)
RunProvider == "p"

\* callers of waitForEmbeddedPiRunEnd
Waiters == {"w1", "w2"}

\* mutant: the scan for the next candidate starts over at the first one
AdvanceChoices_FromFirst(cands, idx, explicit) ==
  LET others == (1..Len(cands)) \ {idx}
  IN {[kind |-> "ok", index |-> k] : k \in others} \cup {[kind |-> "none", index |-> idx]}

\* advanceAuthProfile: the candidates after profileIndex are tried in order;
\* each key resolution (getApiKeyForModel) succeeds or throws.  The choices:
\* index k resolved after every candidate before it failed, or none resolved,
\* or the failing candidate was the explicit one (the error is rethrown).
AdvanceChoices(cands, idx, explicit) ==
  LET later == (idx + 1)..Len(cands)
      skippable(k) == \A j \in (idx + 1)..(k - 1) : ~(cands[j] # None /\ cands[j] = explicit)
  IN {[kind |-> "ok", index |-> k] : k \in {j \in later : skippable(j)}}
       \cup (IF skippable(Len(cands) + 1) THEN {[kind |-> "none", index |-> idx]} ELSE {})
       \cup {[kind |-> "throw", index |-> j] : j \in {i \in later : cands[i] # None /\ cands[i] = explicit}}

\* the candidates advanceAuthProfile tried in vain from index idx on: those
\* before the one that resolved, or all the later ones
FailedBefore(idx, adv) ==
  IF adv.kind = "ok" THEN (idx + 1)..(adv.index - 1)
  ELSE IF adv.kind = "throw" THEN (idx + 1)..adv.index
  ELSE (idx + 1)..Len(profileCandidates)

\* "promptError && !aborted"
PromptErrorLive(o) == o.thrown /\ ~aborted

\* lines 1369-1374
shouldRotate(o) ==
  (~aborted /\ (isAuthAssistantError(o) \/ isRateLimitAssistantError(o))) \/ timedOut

\* What the history keeps of the attempt classified last, until the next
\* attempt starts: the profile, its statistics in the store before the
\* classification, and the class of the outcome.  A text that matches the
\* overflow classifier is an overflow whatever else it matches (the order
\* of lines 1307-1328).
PrevOf(o) ==
  LET overflow == IF PromptErrorLive(o) THEN isContextOverflowError(PromptMsg(o))
                  ELSE o.stop = "error" /\ isContextOverflowError(AssistantMsg(o)) /\ ~timedOut
  IN [profile |-> lastProfileId, thrown |-> PromptErrorLive(o),
      overflow |-> overflow,
      failover |-> /\ ~overflow
                   /\ IF PromptErrorLive(o)
                        THEN isAuthErrorMessage(PromptMsg(o))
                               \/ isRateLimitErrorMessage(PromptMsg(o))
                        ELSE shouldRotate(o),
      auth |-> /\ ~overflow
               /\ IF PromptErrorLive(o) THEN isAuthErrorMessage(PromptMsg(o))
                    ELSE ~aborted /\ isAuthAssistantError(o),
      other |-> /\ ~aborted /\ ~timedOut
                /\ o.thrown \/ o.stop = "error"
                /\ o.msg # NoMsg
                /\ ~o.msg.overflow /\ ~o.msg.auth /\ ~o.msg.rate
                /\ o.msg.supported = <<>>,
      success |-> ~o.thrown /\ o.stop = "stop" /\ ~aborted,
      stats |-> IF lastProfileId = None THEN NoStats
                ELSE files[agentDir].usageStats[lastProfileId]]

NoPrev ==
  [profile |-> None, thrown |-> FALSE, overflow |-> FALSE, failover |-> FALSE,
   auth |-> FALSE, other |-> FALSE, success |-> FALSE, stats |-> NoStats]

\* how a run ends: it throws, or returns payloads whose error text is text
NoResult == [kind |-> "none", text |-> None]
Threw == [kind |-> "threw", text |-> None]
Returned(text) == [kind |-> "returned", text |-> text]

\* mutant: a key failure of the first candidate is never rethrown
RethrowsAtStart_Never(cands, explicit) == FALSE

\* lines 1012-1014: "if (profileCandidates[profileIndex] === explicitProfileId) throw err"
RethrowsAtStart(cands, explicit) == cands[1] = explicit

\* lines 956-1017: load the store, resolve the order, resolve the first key
RunBegin ==
  /\ pc = "init"
  /\ LET store == files[agentDir]
         profileOrder == resolveAuthProfileOrder(NoConfig, store, RunProvider,
                                                 explicitProfileId, now)
         cands == IF Len(profileOrder) > 0 THEN profileOrder ELSE <<None>>
     IN /\ authStore' = store
        /\ profileCandidates' = cands
        /\ IF explicitProfileId # None /\ ~Includes(profileOrder, explicitProfileId)
             THEN /\ pc' = "done" /\ runResult' = Threw
                  /\ UNCHANGED <<profileIndex, lastProfileId, keyFailed>>
             ELSE \E keyOk \in BOOLEAN :
                    IF keyOk
                      THEN /\ pc' = "loop" /\ lastProfileId' = cands[1]
                           /\ UNCHANGED <<profileIndex, runResult, keyFailed>>
                      ELSE IF RethrowsAtStart(cands, explicitProfileId)
                        THEN /\ pc' = "done" /\ runResult' = Threw
                             /\ keyFailed' = {1}
                             /\ UNCHANGED <<profileIndex, lastProfileId>>
                        ELSE \E adv \in AdvanceChoices(cands, 1, explicitProfileId) :
                               /\ keyFailed' = {1} \cup
                                    (IF adv.kind = "ok" THEN 2..(adv.index - 1)
                                     ELSE IF adv.kind = "throw" THEN 2..adv.index
                                     ELSE 2..Len(cands))
                               /\ IF adv.kind = "ok"
                                    THEN /\ pc' = "loop" /\ profileIndex' = adv.index
                                         /\ lastProfileId' = cands[adv.index]
                                         /\ UNCHANGED runResult
                                    ELSE /\ pc' = "done" /\ runResult' = Threw
                                         /\ UNCHANGED <<profileIndex, lastProfileId>>
  /\ UNCHANGED <<nonRunVars, worldVars, paramVars, thinkLevel, attemptedThinking, aborted, timedOut,
                 registered, timers, waiters, waitResult, histVars, startedBy, prev>>

\* lines 1019-1229: the top of the loop up to the registration of the attempt
AttemptStart ==
  /\ pc = "loop"
  /\ pc' = "prompt"
  /\ attemptedThinking' = attemptedThinking \cup {thinkLevel}
  /\ aborted' = FALSE
  /\ timedOut' = FALSE
  /\ registered' = TRUE
  /\ timers' = {"abort"}
  /\ usedLevels' = usedLevels \cup {thinkLevel}
  /\ prev' = NoPrev
  /\ UNCHANGED <<nonRunVars, worldVars, paramVars, authStore, profileCandidates, profileIndex, thinkLevel,
                 lastProfileId, runResult, startedBy, keyFailed, waiters, waitResult>>

\* abortEmbeddedPiRun(sessionId) or the caller's abort signal: abortRun()
UserAbort ==
  /\ pc = "prompt" /\ registered
  /\ ~aborted
  /\ aborted' = TRUE
  /\ UNCHANGED <<nonRunVars, worldVars, pc, paramVars, authStore, profileCandidates, profileIndex,
                 thinkLevel, attemptedThinking, lastProfileId, timedOut, runResult, registered,
                 timers, waiters, waitResult, histVars, keyFailed, startedBy, prev>>

\* the abortTimer fires: abortRun(true), and the abortWarnTimer is set
TimeoutFire ==
  /\ pc = "prompt"
  /\ ~timedOut
  /\ "abort" \in timers
  /\ timers' = {"warn"}
  /\ aborted' = TRUE
  /\ timedOut' = TRUE
  /\ UNCHANGED <<nonRunVars, worldVars, pc, paramVars, authStore, profileCandidates, profileIndex,
                 thinkLevel, attemptedThinking, lastProfileId, runResult, registered,
                 waiters, waitResult, histVars, keyFailed, startedBy, prev>>

\* the abortWarnTimer fires ten seconds after the timeout: a log line
AbortWarnFire ==
  /\ pc = "prompt"
  /\ "warn" \in timers
  /\ timers' = timers \ {"warn"}
  /\ UNCHANGED <<nonRunVars, worldVars, pc, paramVars, authStore, profileCandidates, profileIndex,
                 thinkLevel, attemptedThinking, lastProfileId, aborted, timedOut, runResult,
                 registered, waiters, waitResult, histVars, keyFailed, startedBy, prev>>

\* What the attempt in flight may report.  session.prompt and
\* waitForCompactionRetry are over, the finally block (lines 1291-1304) has
\* unregistered the attempt, and the code from line 1305 on decides.
OutcomesNow == {o \in Outcomes : o.stop = "aborted" => aborted}

Choices == AdvanceChoices(profileCandidates, profileIndex, explicitProfileId)

\* advanceAuthProfile returned true: the state it leaves behind
Rotated(adv) ==
  /\ profileIndex' = adv.index
  /\ thinkLevel' = initialThinkLevel
  /\ attemptedThinking' = {}
  /\ lastProfileId' = profileCandidates[adv.index]
  /\ startedBy' = "rotate"
  /\ keyFailed' = keyFailed \cup FailedBefore(profileIndex, adv)

\* notifyEmbeddedRunEnded: every waiter of the session is resolved with true
\* and its timer cleared
notifyEmbeddedRunEnded_Skip == UNCHANGED <<waiters, waitResult>>
notifyEmbeddedRunEnded ==
  /\ waiters' = {}
  /\ waitResult' = [w \in Waiters |-> IF w \in waiters THEN "ended" ELSE waitResult[w]]

\* the finally block of the attempt (lines 1291-1304): both timers are
\* cleared, the registry entry is deleted and the waiters are notified; then
\* the outcome is classified
Ended(o) ==
  /\ timers' = {}
  /\ registered' = FALSE
  /\ notifyEmbeddedRunEnded
  /\ prev' = PrevOf(o)

\* lines 1307-1326: a thrown context overflow ends the run with the reset text
ReturnOverflow ==
  /\ pc = "prompt"
  /\ \E o \in OutcomesNow :
       /\ PromptErrorLive(o)
       /\ isContextOverflowError(PromptMsg(o))
       /\ Ended(o)
  /\ pc' = "done"
  /\ runResult' = Returned("reset")
  /\ UNCHANGED <<nonRunVars, worldVars, paramVars, authStore, profileCandidates, profileIndex, thinkLevel,
                 attemptedThinking, lastProfileId, aborted, timedOut, histVars, keyFailed, startedBy>>

\* lines 1327-1333: a thrown auth or rate-limit error and advanceAuthProfile() is true
RotateOnPromptError ==
  /\ pc = "prompt"
  /\ \E o \in OutcomesNow :
       /\ PromptErrorLive(o)
       /\ ~isContextOverflowError(PromptMsg(o))
       /\ isAuthErrorMessage(PromptMsg(o)) \/ isRateLimitErrorMessage(PromptMsg(o))
       /\ Ended(o)
  /\ \E adv \in {c \in Choices : c.kind = "ok"} : Rotated(adv)
  /\ pc' = "loop"
  /\ UNCHANGED <<nonRunVars, worldVars, paramVars, authStore, profileCandidates, aborted, timedOut,
                 runResult, histVars>>

\* the thrown error is not answered by a rotation: no auth or rate-limit text,
\* or advanceAuthProfile() found no candidate
NoRotationOnPromptError(o) ==
  /\ PromptErrorLive(o)
  /\ ~isContextOverflowError(PromptMsg(o))
  /\ IF isAuthErrorMessage(PromptMsg(o)) \/ isRateLimitErrorMessage(PromptMsg(o))
       THEN \E adv \in Choices :
              adv.kind # "ok" /\ keyFailed' = keyFailed \cup FailedBefore(profileIndex, adv)
       ELSE UNCHANGED keyFailed

\* lines 1334-1344: retry the same profile with a supported thinking level
RetryThinkingOnPromptError ==
  /\ pc = "prompt"
  /\ \E o \in OutcomesNow :
       /\ NoRotationOnPromptError(o)
       /\ pickFallbackThinkingLevel(PromptMsg(o), attemptedThinking) # None
       /\ thinkLevel' = pickFallbackThinkingLevel(PromptMsg(o), attemptedThinking)
       /\ Ended(o)
  /\ startedBy' = "fallback"
  /\ pc' = "loop"
  /\ UNCHANGED <<nonRunVars, worldVars, paramVars, authStore, profileCandidates, profileIndex,
                 attemptedThinking, lastProfileId, aborted, timedOut, runResult, histVars>>

\* line 1345: throw promptError
ThrowPromptError ==
  /\ pc = "prompt"
  /\ \E o \in OutcomesNow :
       /\ NoRotationOnPromptError(o)
       /\ pickFallbackThinkingLevel(PromptMsg(o), attemptedThinking) = None
       /\ Ended(o)
  /\ pc' = "done"
  /\ runResult' = Threw
  /\ UNCHANGED <<nonRunVars, worldVars, paramVars, authStore, profileCandidates, profileIndex, thinkLevel,
                 attemptedThinking, lastProfileId, aborted, timedOut, histVars, startedBy>>

\* lines 1355-1365: lastAssistant.errorMessage names supported thinking levels
AssistantRetries(o) ==
  pickFallbackThinkingLevel(AssistantMsg(o), attemptedThinking) # None /\ ~aborted

RetryThinkingOnAssistantError ==
  /\ pc = "prompt"
  /\ \E o \in OutcomesNow :
       /\ ~PromptErrorLive(o)
       /\ AssistantRetries(o)
       /\ thinkLevel' = pickFallbackThinkingLevel(AssistantMsg(o), attemptedThinking)
       /\ Ended(o)
  /\ startedBy' = "fallback"
  /\ pc' = "loop"
  /\ UNCHANGED <<nonRunVars, worldVars, paramVars, authStore, profileCandidates, profileIndex,
                 attemptedThinking, lastProfileId, aborted, timedOut, runResult, histVars, keyFailed>>

PastFallback(o) == ~PromptErrorLive(o) /\ ~AssistantRetries(o)

\* lines 1378-1382: "if (lastProfileId) await markAuthProfileCooldown(...)"
CooldownMarked(lockOk) ==
  IF lastProfileId = None THEN [files |-> files, mem |-> authStore]
  ELSE markAuthProfileCooldown(files, authStore, RunMarkDir(agentDir), lastProfileId, now, lockOk)

\* lines 1481-1492: "if (lastProfileId)" markAuthProfileGood, then markAuthProfileUsed
GoodAndUsedMarked(fs, mem, lockGood, lockUsed) ==
  IF lastProfileId = None THEN [files |-> fs, mem |-> mem]
  ELSE LET g == markAuthProfileGood(fs, mem, RunMarkDir(agentDir), RunProvider,
                                    lastProfileId, lockGood)
       IN markAuthProfileUsed(g.files, g.mem, RunMarkDir(agentDir), lastProfileId, now, lockUsed)

\* lines 1376-1392: cooldown for the current profile, then a rotation that succeeds
RotateAfterCooldown ==
  /\ pc = "prompt"
  /\ \E o \in OutcomesNow :
       /\ PastFallback(o) /\ shouldRotate(o)
       /\ Ended(o)
  /\ \E lockOk \in BOOLEAN :
       /\ files' = CooldownMarked(lockOk).files
       /\ authStore' = CooldownMarked(lockOk).mem
  /\ \E adv \in {c \in Choices : c.kind = "ok"} : Rotated(adv)
  /\ pc' = "loop"
  /\ UNCHANGED <<nonRunVars, now, ticks, paramVars, profileCandidates, aborted, timedOut, runResult,
                 histVars>>

\* lines 1393-1405: no candidate left and a fallback model list is configured
ThrowExhausted ==
  /\ pc = "prompt"
  /\ fallbackConfigured
  /\ \E o \in OutcomesNow :
       /\ PastFallback(o) /\ shouldRotate(o)
       /\ Ended(o)
  /\ \E adv \in Choices :
       adv.kind # "ok" /\ keyFailed' = keyFailed \cup FailedBefore(profileIndex, adv)
  /\ \E lockOk \in BOOLEAN :
       /\ files' = CooldownMarked(lockOk).files
       /\ authStore' = CooldownMarked(lockOk).mem
  /\ pc' = "done"
  /\ runResult' = Threw
  /\ UNCHANGED <<nonRunVars, now, ticks, paramVars, profileCandidates, profileIndex, thinkLevel,
                 attemptedThinking, lastProfileId, aborted, timedOut, histVars, startedBy>>

\* no candidate left and no fallback model list: the code falls through to the
\* end of the loop body (lines 1408-1500) and returns
FinishAfterFailedRotation ==
  /\ pc = "prompt"
  /\ ~fallbackConfigured
  /\ \E o \in OutcomesNow :
       /\ PastFallback(o) /\ shouldRotate(o)
       /\ Ended(o)
       /\ runResult' = Returned(formatAssistantErrorText(o))
  /\ \E adv \in Choices :
       adv.kind # "ok" /\ keyFailed' = keyFailed \cup FailedBefore(profileIndex, adv)
  /\ \E lockOk \in BOOLEAN, lockGood \in BOOLEAN, lockUsed \in BOOLEAN :
       LET c == CooldownMarked(lockOk)
           m == GoodAndUsedMarked(c.files, c.mem, lockGood, lockUsed)
       IN files' = m.files /\ authStore' = m.mem
  /\ pc' = "done"
  /\ UNCHANGED <<nonRunVars, now, ticks, paramVars, profileCandidates, profileIndex, thinkLevel,
                 attemptedThinking, lastProfileId, aborted, timedOut, histVars, startedBy>>

\* lines 1408-1500: build the payloads, mark the profile good and used, return
Finish ==
  /\ pc = "prompt"
  /\ \E o \in OutcomesNow :
       /\ PastFallback(o) /\ ~shouldRotate(o)
       /\ Ended(o)
       /\ runResult' = Returned(formatAssistantErrorText(o))
  /\ \E lockGood \in BOOLEAN, lockUsed \in BOOLEAN :
       LET m == GoodAndUsedMarked(files, authStore, lockGood, lockUsed)
       IN files' = m.files /\ authStore' = m.mem
  /\ pc' = "done"
  /\ UNCHANGED <<nonRunVars, now, ticks, paramVars, profileCandidates, profileIndex, thinkLevel,
                 attemptedThinking, lastProfileId, aborted, timedOut, histVars, keyFailed, startedBy>>

\* time passes while an attempt is under way
Tick ==
  /\ pc = "prompt"
  /\ ticks < MaxTicks
  /\ ticks' = ticks + 1
  /\ now' = now + TickMs
  /\ UNCHANGED <<files, runVars, storeVars, laneVars, pureVars, callVars>>

(***************************************************************************)
(* Lanes: runs and compactions through the session and the global lane     *)
(***************************************************************************)
\* A string is the sequence of its pieces; " " is white space and
\* "session:" the lane prefix.  An absent sessionKey and an empty one are
\* both <<>>: line 931 treats them alike.
Requests == 1..MaxRequests
SessionKeys == {<<>>, <<" ">>, <<"k1">>, <<" ", "k1", " ">>, <<"session:", "k1">>}
SessionIds == {<<"s1">>, <<"s2">>}
Kinds == {"run", "compact"}
\* what a call keeps of its request: the conversation it names, the
\* session lane resolved on entry, and whether it runs or compacts
NoParams == [conversation |-> <<>>, sessionLane |-> <<>>, kind |-> None]

\* String.prototype.trim()
RECURSIVE Trim(_)
Trim(s) ==
  IF s = <<>> THEN s
  ELSE IF Head(s) = " " THEN Trim(Tail(s))
  ELSE IF s[Len(s)] = " " THEN Trim(SubSeq(s, 1, Len(s) - 1))
  ELSE s

resolveSessionLane(key) ==
  LET cleaned == IF Trim(key) # <<>> THEN Trim(key) ELSE <<"main">>
  IN IF Head(cleaned) = "session:" THEN cleaned ELSE <<"session:">> \o cleaned

resolveGlobalLane(lane) ==
  LET cleaned == Trim(lane)
  IN IF cleaned # <<>> THEN cleaned ELSE <<"main">>

\* params.sessionKey?.trim() || params.sessionId: what names the conversation
conversationOf(sessionKey, sessionId) ==
  IF Trim(sessionKey) # <<>> THEN Trim(sessionKey) ELSE sessionId

\* the request's session lane resolved from the session id alone
sessionLaneOf_IdOnly(sessionKey, sessionId) == resolveSessionLane(sessionId)

\* const sessionLane = resolveSessionLane(params.sessionKey?.trim() || params.sessionId)
sessionLaneOf(sessionKey, sessionId) ==
  resolveSessionLane(conversationOf(sessionKey, sessionId))

\* const globalLane = resolveGlobalLane(params.lane), params.lane not given
globalLane == resolveGlobalLane(<<>>)

Lanes ==
  {globalLane}
    \cup {resolveSessionLane(conversationOf(k, i)) : k \in SessionKeys, i \in SessionIds}

\* the queue primitive: how many entries of a lane run at once.  A session
\* lane runs one; the global lane runs up to its configured ceiling.
laneMaxConcurrent(lane) == IF lane = globalLane THEN MaxConcurrent ELSE 1

\* the queue primitive: an entry is appended to its lane
enqueueCommandInLane(queues, lane, r) ==
  [queues EXCEPT ![lane] = Append(@, r)]

\* the queue primitive: the lane starts its oldest waiting entry when fewer
\* than its maximum are running
canStart(lane, r) ==
  /\ laneQueue[lane] # <<>>
  /\ Head(laneQueue[lane]) = r
  /\ Cardinality(laneActive[lane]) < laneMaxConcurrent(lane)

\* a request reaches runEmbeddedPiAgent or compactEmbeddedPiSession, which
\* enqueues an entry on the request's session lane (requests are numbered
\* in the order they arrive)
Enqueue(r, kind) ==
  /\ rstate[r] = "new"
  /\ \A q \in Requests : q < r => rstate[q] # "new"
  /\ \E k \in SessionKeys, i \in SessionIds :
       /\ rparams' = [rparams EXCEPT ![r] =
                         [conversation |-> conversationOf(k, i),
                          sessionLane |-> sessionLaneOf(k, i),
                          kind |-> kind]]
       /\ laneQueue' = enqueueCommandInLane(laneQueue, sessionLaneOf(k, i), r)
  /\ rstate' = [rstate EXCEPT ![r] = "squeued"]
  /\ UNCHANGED <<nonLaneVars, laneActive>>

EnqueueRun == \E r \in Requests : Enqueue(r, "run")

EnqueueCompact == \E r \in Requests : Enqueue(r, "compact")

\* the session lane starts the entry and its task executes the work itself
SessionTaskStart_Direct ==
  \E r \in Requests :
    LET lane == rparams[r].sessionLane IN
    /\ rstate[r] = "squeued"
    /\ canStart(lane, r)
    /\ laneQueue' = [laneQueue EXCEPT ![lane] = Tail(@)]
    /\ laneActive' = [laneActive EXCEPT ![lane] = @ \cup {r}]
    /\ rstate' = [rstate EXCEPT ![r] = "running"]
    /\ UNCHANGED <<nonLaneVars, rparams>>

\* mutant: the task of the session entry puts the work on the session lane
\* again and waits for it there
SessionTaskStart_SameLane ==
  \E r \in Requests :
    LET lane == rparams[r].sessionLane IN
    /\ rstate[r] = "squeued"
    /\ canStart(lane, r)
    /\ laneQueue' = enqueueCommandInLane(
                      [laneQueue EXCEPT ![lane] = Tail(@)], lane, r)
    /\ laneActive' = [laneActive EXCEPT ![lane] = @ \cup {r}]
    /\ rstate' = [rstate EXCEPT ![r] = "gqueued"]
    /\ UNCHANGED <<nonLaneVars, rparams>>

\* the session lane starts the entry; its task is () => enqueueGlobal(...),
\* which puts the work on the global lane and waits for it
SessionTaskStart ==
  \E r \in Requests :
    LET lane == rparams[r].sessionLane IN
    /\ rstate[r] = "squeued"
    /\ canStart(lane, r)
    /\ laneQueue' = enqueueCommandInLane(
                      [laneQueue EXCEPT ![lane] = Tail(@)], globalLane, r)
    /\ laneActive' = [laneActive EXCEPT ![lane] = @ \cup {r}]
    /\ rstate' = [rstate EXCEPT ![r] = "gqueued"]
    /\ UNCHANGED <<nonLaneVars, rparams>>

\* the global lane starts the entry: the run or the compaction executes
GlobalTaskStart ==
  \E r \in Requests :
    /\ rstate[r] = "gqueued"
    /\ canStart(globalLane, r)
    /\ laneQueue' = [laneQueue EXCEPT ![globalLane] = Tail(@)]
    /\ laneActive' = [laneActive EXCEPT ![globalLane] = @ \cup {r}]
    /\ rstate' = [rstate EXCEPT ![r] = "running"]
    /\ UNCHANGED <<nonLaneVars, rparams>>

\* the work returns or throws: the global entry settles, and with it the
\* session entry that awaited it; both lanes are free to start their next
WorkSettled ==
  \E r \in Requests :
    /\ rstate[r] = "running"
    /\ laneActive' = [l \in Lanes |-> laneActive[l] \ {r}]
    /\ rstate' = [rstate EXCEPT ![r] = "done"]
    /\ rparams' = [rparams EXCEPT ![r] = NoParams]
    /\ UNCHANGED <<nonLaneVars, laneQueue>>

\* no request is under way
LanesIdle ==
  /\ rstate = [r \in Requests |-> "off"]
  /\ rparams = [r \in Requests |-> NoParams]
  /\ laneQueue = [l \in Lanes |-> <<>>]
  /\ laneActive = [l \in Lanes |-> {}]

(***************************************************************************)
(* Processes on one store file: usage marks, upsert, OAuth key resolution  *)
(***************************************************************************)
\* OS processes sharing auth-profiles.json of the default agent directory
Procs == {"A", "B", "C"}

NoOp == [kind |-> "none", id |-> None, t |-> 0, provider |-> None]
UpsertOp(id) == [kind |-> "upsert", id |-> id, t |-> 0, provider |-> None]
ResolveOp(id) == [kind |-> "resolve", id |-> id, t |-> 0, provider |-> None]

\* the usage mutations a process may apply
UsageOps ==
  {UsedOp("p:oauth1", 0), CooldownOp("p:oauth1", 0), CooldownOp("p:a", 0),
   ClearOp("p:oauth1"), GoodOp("p", "p:oauth1")}

\* the updater closures read Date.now() when they run
At(op, t) == [op EXCEPT !.t = t]

\* the OAuth credential of the store file at the start: expired
ExpiredAt == StartMs - 1000
\* what the provider's refresh answers at time t: a credential good for an hour
RefreshedCred(cred, t) == [cred EXCEPT !.expires = t + 60 * 60 * 1000]

StoreFile0 ==
  [StoreWith({"p:a", "p:oauth1"}) EXCEPT
     !.profiles["p:oauth1"].expires = ExpiredAt,
     !.usageStats["p:oauth1"] = [lastUsed |-> 5000, errorCount |-> 1, cooldownUntil |-> 9000]]

TheFile == files[DefaultDir]

\* saveAuthProfileStore / saveJsonFile by process p
WriteFile(p, store) ==
  /\ files' = [files EXCEPT ![DefaultDir] = store]
  /\ lastWrite' = [by |-> p, op |-> sop[p].kind, locked |-> lockHolder = p]
  /\ tainted' = (tainted \/ lockHolder # p)

NoWrite == UNCHANGED <<files, lastWrite, tainted>>

\* mutant: the updater runs on the caller's copy, not on a fresh read
LockedReread_CallerCopy(file, mem) == mem

\* "const store = ensureAuthProfileStore(params.agentDir)" after the lock is
\* taken: the file as it is now (no external CLI credentials to sync)
LockedReread(file, mem) == file

\* ensureAuthProfileStore(): a process loads its in-memory copy
Load(p) ==
  /\ spc[p] = "idle"
  /\ smem[p] # TheFile
  /\ smem' = [smem EXCEPT ![p] = TheFile]
  /\ UNCHANGED <<worldVars, nonStoreVars, lockHolder, spc, sop, sfresh, sres, lastWrite, tainted,
                 expected, refreshLog>>

\* markAuthProfileUsed / Cooldown / Good, clearAuthProfileCooldown up to
\* lockfile.lock: ensureAuthStoreFile finds the file in place
MarkBegin(p) ==
  /\ spc[p] = "idle"
  /\ \E op \in UsageOps : sop' = [sop EXCEPT ![p] = op]
  /\ spc' = [spc EXCEPT ![p] = "lock"]
  /\ UNCHANGED <<worldVars, nonStoreVars, lockHolder, smem, sfresh, sres, lastWrite, tainted,
                 expected, refreshLog>>

\* upsertAuthProfile, "const store = ensureAuthProfileStore(params.agentDir)":
\* the file is read; no lock is taken
UpsertBegin(p) ==
  /\ spc[p] = "idle"
  /\ sop' = [sop EXCEPT ![p] = UpsertOp("p:b")]
  /\ smem' = [smem EXCEPT ![p] = TheFile]
  /\ spc' = [spc EXCEPT ![p] = "upsert"]
  /\ UNCHANGED <<worldVars, nonStoreVars, lockHolder, sfresh, sres, lastWrite, tainted,
                 expected, refreshLog>>

\* upsertAuthProfile: the profile is set in the store read and the store is
\* saved, whatever other processes wrote to the file since the read
UpsertSave(p) ==
  /\ spc[p] = "upsert"
  /\ LET store == [smem[p] EXCEPT !.profiles[sop[p].id] = CredOf(sop[p].id)]
     IN /\ WriteFile(p, store)
        /\ smem' = [smem EXCEPT ![p] = store]
  /\ spc' = [spc EXCEPT ![p] = "done"]
  /\ sres' = [sres EXCEPT ![p] = "saved"]
  /\ UNCHANGED <<now, ticks, nonStoreVars, lockHolder, sop, sfresh, expected, refreshLog>>

\* resolveApiKeyForProfile on the OAuth profile of the caller's copy: the
\* key at once while the credential is not expired, else towards the lock
ResolveBegin(p) ==
  /\ spc[p] = "idle"
  /\ HasProfile(smem[p], "p:oauth1")
  /\ sop' = [sop EXCEPT ![p] = ResolveOp("p:oauth1")]
  /\ IF now < smem[p].profiles["p:oauth1"].expires
       THEN /\ spc' = [spc EXCEPT ![p] = "done"]
            /\ sres' = [sres EXCEPT ![p] = "cached"]
       ELSE /\ spc' = [spc EXCEPT ![p] = "lock"]
            /\ UNCHANGED sres
  /\ UNCHANGED <<worldVars, nonStoreVars, lockHolder, smem, sfresh, lastWrite, tainted, expected,
                 refreshLog>>

\* lockfile.lock(authPath) succeeds: nobody holds the lock
LockAcquire(p) ==
  /\ spc[p] = "lock"
  /\ lockHolder = None
  /\ lockHolder' = p
  /\ spc' = [spc EXCEPT ![p] = "locked"]
  /\ UNCHANGED <<worldVars, nonStoreVars, sop, smem, sfresh, sres, lastWrite, tainted, expected,
                 refreshLog>>

\* lockfile.lock(authPath) gives up after its retries while another process
\* holds the lock.  A usage mark goes on without the lock; the key resolution
\* catches the error, reads the store again and returns the credential if it
\* is fresh by now.
LockTimeout(p) ==
  /\ spc[p] = "lock"
  /\ lockHolder # None
  /\ IF sop[p].kind = "resolve"
       THEN /\ spc' = [spc EXCEPT ![p] = "done"]
            /\ sres' = [sres EXCEPT ![p] =
                 IF HasProfile(TheFile, sop[p].id) /\ TheFile.profiles[sop[p].id].type = "oauth"
                      /\ now < TheFile.profiles[sop[p].id].expires
                   THEN "reread" ELSE "error"]
       ELSE /\ spc' = [spc EXCEPT ![p] = "fallback"]
            /\ UNCHANGED sres
  /\ UNCHANGED <<worldVars, nonStoreVars, lockHolder, sop, smem, sfresh, lastWrite, tainted,
                 expected, refreshLog>>

\* updateAuthProfileStoreWithLock with the lock held: re-read, updater, save
\* if the updater says so, release; then syncAuthProfileStore
MarkCommit(p) ==
  /\ spc[p] = "locked"
  /\ sop[p].kind \in {"used", "cooldown", "good", "clear"}
  /\ LET r == Update(At(sop[p], now), LockedReread(TheFile, smem[p]))
     IN /\ IF r.save THEN WriteFile(p, r.store) ELSE NoWrite
        /\ smem' = [smem EXCEPT ![p] = r.store]
        /\ sres' = [sres EXCEPT ![p] = IF r.save THEN "saved" ELSE "unchanged"]
  /\ expected' = Update(At(sop[p], now), expected).store
  /\ lockHolder' = None
  /\ spc' = [spc EXCEPT ![p] = "done"]
  /\ UNCHANGED <<now, ticks, nonStoreVars, sop, sfresh, refreshLog>>

\* the lock was not acquired and the call returns with nothing done
MarkFallback_Drop(p) ==
  /\ spc[p] = "fallback"
  /\ NoWrite
  /\ sres' = [sres EXCEPT ![p] = "unchanged"]
  /\ spc' = [spc EXCEPT ![p] = "done"]
  /\ UNCHANGED <<now, ticks, nonStoreVars, lockHolder, sop, smem, sfresh, expected, refreshLog>>

\* the lock was not acquired: the same mutation on the caller's copy, saved
MarkFallback(p) ==
  /\ spc[p] = "fallback"
  /\ LET r == Update(At(sop[p], now), smem[p])
     IN /\ IF r.save THEN WriteFile(p, r.store) ELSE NoWrite
        /\ smem' = [smem EXCEPT ![p] = r.store]
        /\ sres' = [sres EXCEPT ![p] = IF r.save THEN "saved" ELSE "unchanged"]
  /\ spc' = [spc EXCEPT ![p] = "done"]
  /\ UNCHANGED <<now, ticks, nonStoreVars, lockHolder, sop, sfresh, expected, refreshLog>>

\* refreshOAuthTokenWithLock with the lock held: re-read the store; null
\* without an OAuth credential, the credential itself if it is not expired,
\* else the call of getOAuthApiKey starts
RefreshCheck(p) ==
  /\ spc[p] = "locked"
  /\ sop[p].kind = "resolve"
  /\ LET store == LockedReread(TheFile, smem[p])
         id == sop[p].id
     IN IF ~HasProfile(store, id) \/ store.profiles[id].type # "oauth"
          THEN /\ sres' = [sres EXCEPT ![p] = "null"]
               /\ spc' = [spc EXCEPT ![p] = "done"]
               /\ lockHolder' = None
               /\ UNCHANGED sfresh
          ELSE IF now < store.profiles[id].expires
            THEN /\ sres' = [sres EXCEPT ![p] = "reread"]
                 /\ spc' = [spc EXCEPT ![p] = "done"]
                 /\ lockHolder' = None
                 /\ UNCHANGED sfresh
            ELSE /\ sfresh' = [sfresh EXCEPT ![p] = store]
                 /\ spc' = [spc EXCEPT ![p] = "refreshing"]
                 /\ UNCHANGED <<sres, lockHolder>>
  /\ UNCHANGED <<worldVars, nonStoreVars, sop, smem, lastWrite, tainted, expected, refreshLog>>

\* getOAuthApiKey returns: new credentials, saved into the store read before
\* the call, or a failure (null or an exception) that saves nothing; the
\* lock is released either way
RefreshDone(p) ==
  /\ spc[p] = "refreshing"
  /\ LET id == sop[p].id
         cred == sfresh[p].profiles[id]
     IN \E ok \in BOOLEAN :
          /\ refreshLog' = Append(refreshLog,
                             [expires |-> cred.expires, ok |-> ok, locked |-> lockHolder = p])
          /\ IF ok
               THEN /\ WriteFile(p, [sfresh[p] EXCEPT !.profiles[id] = RefreshedCred(cred, now)])
                    /\ expected' = [expected EXCEPT !.profiles[id] = RefreshedCred(cred, now)]
                    /\ sres' = [sres EXCEPT ![p] = "refreshed"]
               ELSE /\ NoWrite
                    /\ sres' = [sres EXCEPT ![p] = "error"]
                    /\ UNCHANGED expected
  /\ lockHolder' = None
  /\ spc' = [spc EXCEPT ![p] = "done"]
  /\ UNCHANGED <<now, ticks, nonStoreVars, sop, smem, sfresh>>

\* time passes while the processes work
StoreTick ==
  /\ \E p \in Procs : spc[p] \notin {"off", "done"}
  /\ ticks < MaxTicks
  /\ ticks' = ticks + 1
  /\ now' = now + TickMs
  /\ UNCHANGED <<files, runVars, storeVars, laneVars, pureVars, callVars>>

\* no process works on the store
StoreIdle ==
  /\ lockHolder = None
  /\ spc = [p \in Procs |-> "off"]
  /\ sop = [p \in Procs |-> NoOp]
  /\ smem = [p \in Procs |-> EmptyStore]
  /\ sfresh = [p \in Procs |-> EmptyStore]
  /\ sres = [p \in Procs |-> None]
  /\ lastWrite = [by |-> None, op |-> "none", locked |-> TRUE]
  /\ tainted = FALSE
  /\ expected = EmptyStore
  /\ refreshLog = <<>>

\* nobody waits for the run's end or calls abort, steer or the queries
CallersIdle ==
  /\ waiters = {}
  /\ waitResult = [w \in Waiters |-> "idle"]
  /\ lastCall = [op |-> "none", result |-> FALSE, at |-> "off"]
  /\ steered = FALSE

\* no function is applied on its own
NoCall == [nocall |-> TRUE]
PureIdle == callIn = NoCall /\ callOut = NoCall

\* no run is under way
RunIdle ==
  /\ pc = "off"
  /\ agentDir = DefaultDir
  /\ fallbackConfigured = FALSE
  /\ explicitProfileId = None
  /\ initialThinkLevel = "off"
  /\ authStore = EmptyStore
  /\ profileCandidates = <<>>
  /\ profileIndex = 1
  /\ thinkLevel = "off"
  /\ attemptedThinking = {}
  /\ lastProfileId = None
  /\ aborted = FALSE
  /\ timedOut = FALSE
  /\ runResult = NoResult
  /\ registered = FALSE
  /\ timers = {}
  /\ usedLevels = {}
  /\ keyFailed = {}
  /\ startedBy = "first"
  /\ prev = NoPrev

InitStore ==
  /\ RunIdle
  /\ LanesIdle
  /\ CallersIdle
  /\ PureIdle
  /\ files = [d \in Dirs |-> IF d = DefaultDir THEN StoreFile0 ELSE EmptyStore]
  /\ now = StartMs
  /\ ticks = 0
  /\ lockHolder = None
  /\ spc = [p \in Procs |-> "idle"]
  /\ sop = [p \in Procs |-> NoOp]
  /\ smem = [p \in Procs |-> StoreFile0]
  /\ sfresh = [p \in Procs |-> EmptyStore]
  /\ sres = [p \in Procs |-> None]
  /\ lastWrite = [by |-> None, op |-> "none", locked |-> TRUE]
  /\ tainted = FALSE
  /\ expected = StoreFile0
  /\ refreshLog = <<>>

NextStore ==
  \/ \E p \in Procs : Load(p)
  \/ \E p \in Procs : MarkBegin(p)
  \/ \E p \in Procs : UpsertBegin(p)
  \/ \E p \in Procs : UpsertSave(p)
  \/ \E p \in Procs : ResolveBegin(p)
  \/ \E p \in Procs : LockAcquire(p)
  \/ \E p \in Procs : LockTimeout(p)
  \/ \E p \in Procs : MarkCommit(p)
  \/ \E p \in Procs : MarkFallback(p)
  \/ \E p \in Procs : RefreshCheck(p)
  \/ \E p \in Procs : RefreshDone(p)
  \/ StoreTick

SpecStore == InitStore /\ [][NextStore]_vars

(***************************************************************************)
(* SpecRun                                                                 *)
(***************************************************************************)
\* usage statistics a profile may carry from earlier runs: none, or an
\* expired cooldown after two errors
StaleStats == [lastUsed |-> 5000, errorCount |-> 2, cooldownUntil |-> 9000]

\* an API-key profile never used and a valid OAuth profile
ScenarioStore == StoreWith({"p:a", "p:oauth1"})

RunStores ==
  {EmptyStore,
   [StoreWith({"p:a", "p:b"}) EXCEPT !.usageStats =
      [id \in ProfileSet |-> IF id = "p:b" THEN StaleStats ELSE NoStats]]}

\* a run is about to begin: its store file is one of stores, its pinned
\* profile one of pinned
InitRunOn(stores, pinned) ==
  /\ agentDir \in Dirs
  /\ \E st \in stores :
       files = [d \in Dirs |-> IF d = agentDir THEN st ELSE StoreWith(ProfileSet)]
  /\ now = StartMs
  /\ ticks = 0
  /\ pc = "init"
  /\ fallbackConfigured \in BOOLEAN
  /\ explicitProfileId \in pinned
  /\ initialThinkLevel \in {"off", "low"}
  /\ authStore = EmptyStore
  /\ profileCandidates = <<>>
  /\ profileIndex = 1
  /\ thinkLevel = initialThinkLevel
  /\ attemptedThinking = {}
  /\ lastProfileId = None
  /\ aborted = FALSE
  /\ timedOut = FALSE
  /\ runResult = NoResult
  /\ registered = FALSE
  /\ timers = {}
  /\ usedLevels = {}
  /\ keyFailed = {}
  /\ startedBy = "first"
  /\ prev = NoPrev
  /\ StoreIdle
  /\ LanesIdle
  /\ CallersIdle
  /\ PureIdle

InitRun == InitRunOn(RunStores, {None, "p:a"})

\* the steps of the run itself
RunStep ==
  \/ RunBegin
  \/ AttemptStart
  \/ UserAbort
  \/ TimeoutFire
  \/ AbortWarnFire
  \/ ReturnOverflow
  \/ RotateOnPromptError
  \/ RetryThinkingOnPromptError
  \/ ThrowPromptError
  \/ RetryThinkingOnAssistantError
  \/ RotateAfterCooldown
  \/ ThrowExhausted
  \/ FinishAfterFailedRotation
  \/ Finish

NextRun ==
  \/ RunStep
  \/ Tick

SpecRun == InitRun /\ [][NextRun]_vars

\* the run on the store of two profiles, an API key and a valid OAuth
\* credential, with no pinned profile
InitScenario == InitRunOn({ScenarioStore}, {None})

SpecScenario == InitScenario /\ [][NextRun]_vars

(***************************************************************************)
(* SpecWaiters, SpecRegistry: the run and the callers of the registry      *)
(***************************************************************************)

\* what the callers of the registry leave alone in the run
runButAborted == <<pc, paramVars, authStore, profileCandidates, profileIndex, thinkLevel,
                   attemptedThinking, lastProfileId, timedOut, runResult, registered,
                   timers, histVars, keyFailed, startedBy, prev>>

\* the run exists: its request was made, and it may still wait in a lane
RunRequested == pc # "off"

\* waitForEmbeddedPiRunEnd(sessionId): true at once when the session has no
\* entry ("inactive"), a pending waiter with its own timer otherwise; the
\* promise then resolves true on the notification ("ended") or false when
\* the waiter's timer fires first ("timeout")
WaitForEnd(w) ==
  /\ RunRequested
  /\ waitResult[w] = "idle"
  /\ IF registered
       THEN /\ waiters' = waiters \cup {w}
            /\ waitResult' = [waitResult EXCEPT ![w] = "pending"]
       ELSE /\ waiters' = waiters
            /\ waitResult' = [waitResult EXCEPT ![w] = "inactive"]
  /\ UNCHANGED <<worldVars, storeVars, laneVars, pureVars, callVars, runButAborted, aborted>>

\* the waiter's timer fires first: it leaves the set and resolves false
WaiterTimeout(w) ==
  /\ w \in waiters
  /\ waiters' = waiters \ {w}
  /\ waitResult' = [waitResult EXCEPT ![w] = "timeout"]
  /\ UNCHANGED <<worldVars, storeVars, laneVars, pureVars, callVars, runButAborted, aborted>>

\* abortEmbeddedPiRun(sessionId) as the registry sees it: without a handle
\* false and nothing else, with one handle.abort() and true
abortEmbeddedPiRun_Always(has) == [result |-> TRUE, aborts |-> TRUE]
abortEmbeddedPiRun(has) == [result |-> has, aborts |-> has]

AbortCall ==
  /\ RunRequested
  /\ lastCall' = [op |-> "abort", result |-> abortEmbeddedPiRun(registered).result, at |-> pc]
  /\ aborted' = (aborted \/ abortEmbeddedPiRun(registered).aborts)
  /\ UNCHANGED <<worldVars, storeVars, laneVars, pureVars, steered, runButAborted, waiters, waitResult>>

\* queueEmbeddedPiMessage(sessionId, text): the text is handed to the attempt
\* only when a handle is registered, streams and does not compact
queueEmbeddedPiMessage(has, streaming, compacting) == has /\ streaming /\ ~compacting

SteerCall ==
  /\ RunRequested
  /\ \E streaming \in BOOLEAN, compacting \in BOOLEAN :
       /\ lastCall' = [op |-> "steer",
                       result |-> queueEmbeddedPiMessage(registered, streaming, compacting),
                       at |-> pc]
       /\ steered' = (steered \/ queueEmbeddedPiMessage(registered, streaming, compacting))
  /\ UNCHANGED <<worldVars, storeVars, laneVars, pureVars, runVars>>

\* isEmbeddedPiRunStreaming(sessionId), given what the session reports
isEmbeddedPiRunStreaming(streaming) == registered /\ streaming

\* isEmbeddedPiRunActive(sessionId)
isEmbeddedPiRunActive == registered

\* one run on the default directory with thinking off
InitRegistry ==
  /\ InitScenario
  /\ agentDir = DefaultDir
  /\ initialThinkLevel = "off"

\* the run and the callers that wait for its end, within one tick of the clock
NextWaiters ==
  \/ RunStep
  \/ \E w \in Waiters : WaitForEnd(w)
  \/ \E w \in Waiters : WaiterTimeout(w)

SpecWaiters == InitRegistry /\ [][NextWaiters]_vars

\* the run and the callers that abort or steer it, within one tick of the clock
NextRegistry ==
  \/ RunStep
  \/ AbortCall
  \/ SteerCall

SpecRegistry == InitRegistry /\ [][NextRegistry]_vars

(***************************************************************************)
(* SpecLanes                                                               *)
(***************************************************************************)
InitLanes ==
  /\ RunIdle
  /\ StoreIdle
  /\ CallersIdle
  /\ PureIdle
  /\ files = [d \in Dirs |-> EmptyStore]
  /\ now = StartMs
  /\ ticks = 0
  /\ rstate = [r \in Requests |-> "new"]
  /\ rparams = [r \in Requests |-> NoParams]
  /\ laneQueue = [l \in Lanes |-> <<>>]
  /\ laneActive = [l \in Lanes |-> {}]

NextLanes ==
  \/ EnqueueRun
  \/ EnqueueCompact
  \/ SessionTaskStart
  \/ GlobalTaskStart
  \/ WorkSettled

SpecLanes == InitLanes /\ [][NextLanes]_vars

\* the lanes start an entry whenever one may start, and every unit of work
\* terminates; requests arrive or not
FairLanes ==
  /\ SpecLanes
  /\ WF_vars(SessionTaskStart)
  /\ WF_vars(GlobalTaskStart)
  /\ WF_vars(WorkSettled)

(***************************************************************************)
(* Functions of the store applied on their own                             *)
(***************************************************************************)
\* nothing else goes on while one function is applied
AllIdle ==
  /\ RunIdle
  /\ StoreIdle
  /\ LanesIdle
  /\ CallersIdle
  /\ files = [d \in Dirs |-> EmptyStore]
  /\ now = StartMs
  /\ ticks = 0

Returned1(v) == [value |-> v]

\* SpecCooldown: calculateAuthProfileCooldownMs(errorCount)
InitCooldown ==
  /\ AllIdle
  /\ callIn \in {[errorCount |-> n] : n \in 0..MaxErrorCount}
  /\ callOut = NoCall

CalcCooldown ==
  /\ callOut = NoCall
  /\ callOut' = Returned1(calculateAuthProfileCooldownMs(callIn.errorCount))
  /\ UNCHANGED <<worldVars, runVars, storeVars, laneVars, callVars, callIn>>

SpecCooldown == InitCooldown /\ [][CalcCooldown]_vars

\* SpecMarks: one caller marks the profiles of one store file, one call
\* after the other, while time passes.  callIn is the last call and the
\* profile's statistics before it; callOut holds the caller's copy of the
\* store, the number of calls made and, per profile, the cooldown marks in a
\* row since the last successful use or reset.
MarkedIds == {"p:a", "p:oauth1"}
MarkSteps == {TickMs, 2 * 60 * 60 * 1000}
MarkStore0 == StoreWith(MarkedIds)

InitMarks ==
  /\ RunIdle
  /\ StoreIdle
  /\ LanesIdle
  /\ CallersIdle
  /\ files = [d \in Dirs |-> MarkStore0]
  /\ now = StartMs
  /\ ticks = 0
  /\ callIn = NoCall
  /\ callOut = [mem |-> MarkStore0, calls |-> 0, streak |-> [id \in MarkedIds |-> 0]]

\* what the caller keeps of a call that has returned
Marked(fn, id, r, streak) ==
  /\ callOut.calls < MaxCalls
  /\ files' = r.files
  /\ callIn' = [fn |-> fn, id |-> id, t |-> now, before |-> StatsOf(files[DefaultDir], id)]
  /\ callOut' = [mem |-> r.mem, calls |-> callOut.calls + 1, streak |-> streak]
  /\ UNCHANGED <<now, ticks, runVars, storeVars, laneVars, callVars>>

MarkCooldownCall ==
  \E id \in MarkedIds, lockOk \in BOOLEAN :
    Marked("cooldown", id,
           markAuthProfileCooldown(files, callOut.mem, DefaultDir, id, now, lockOk),
           [callOut.streak EXCEPT ![id] = @ + 1])

MarkUsedCall ==
  \E id \in MarkedIds, lockOk \in BOOLEAN :
    Marked("used", id,
           markAuthProfileUsed(files, callOut.mem, DefaultDir, id, now, lockOk),
           [callOut.streak EXCEPT ![id] = 0])

MarkGoodCall ==
  \E id \in MarkedIds, lockOk \in BOOLEAN :
    Marked("good", id,
           markAuthProfileGood(files, callOut.mem, DefaultDir, CredOf(id).provider, id, lockOk),
           callOut.streak)

ClearCooldownCall ==
  \E id \in MarkedIds, lockOk \in BOOLEAN :
    Marked("clear", id,
           clearAuthProfileCooldown(files, callOut.mem, DefaultDir, id, lockOk),
           [callOut.streak EXCEPT ![id] = 0])

\* time passes between two calls: seconds, or hours
MarksTick ==
  /\ ticks < MaxMarkTicks
  /\ ticks' = ticks + 1
  /\ \E step \in MarkSteps : now' = now + step
  /\ UNCHANGED <<files, runVars, storeVars, laneVars, callVars, pureVars>>

NextMarks ==
  \/ MarkCooldownCall
  \/ MarkUsedCall
  \/ MarkGoodCall
  \/ ClearCooldownCall
  \/ MarksTick

SpecMarks == InitMarks /\ [][NextMarks]_vars

\* SpecOrder: resolveAuthProfileOrder({cfg, store, provider, preferredProfile})
\* at one time of day, for stores of up to three profiles of several types,
\* one of them possibly of another provider, with and without usage
\* statistics, and for configs with and without an order
OtherProvider == "q"
CooldownChoices == {Undef, StartMs - 1000, StartMs + 60 * 1000, StartMs + 5 * 60 * 1000}
LastUsedChoices == {Undef, 5000}

StatsWith(lastUsed, cooldownUntil) ==
  IF lastUsed = Undef /\ cooldownUntil = Undef THEN NoStats
  ELSE [lastUsed |-> lastUsed,
        errorCount |-> IF cooldownUntil = Undef THEN 0 ELSE 1,
        cooldownUntil |-> cooldownUntil]

CredWith(type, provider) == [type |-> type, provider |-> provider, expires |-> StartMs * 100]

OrderStores ==
  {[profiles |-> [id \in ProfileSet |->
                    CASE id = "p:a" -> CredWith(ta, RunProvider)
                      [] id = "p:oauth1" -> CredWith(to, RunProvider)
                      [] OTHER -> cb],
    lastGood |-> [q \in Providers |-> None],
    usageStats |-> [id \in ProfileSet |->
                      CASE id = "p:a" -> StatsWith(la, ca)
                        [] id = "p:oauth1" -> StatsWith(lo, co)
                        [] OTHER -> IF cb = NoCred THEN NoStats ELSE StatsWith(Undef, cbu)]] :
     ta \in {"api_key", "oauth"}, to \in {"oauth", "token"},
     cb \in {NoCred, CredWith("api_key", RunProvider), CredWith("api_key", OtherProvider)},
     la \in LastUsedChoices, lo \in LastUsedChoices,
     ca \in CooldownChoices, co \in CooldownChoices \ {StartMs - 1000},
     cbu \in {Undef, StartMs + 60 * 1000}}

CfgProfile(provider, mode) == [provider |-> provider, mode |-> mode]

OrderConfigs ==
  {NoConfig,
   [NoConfig EXCEPT !.order = <<>>],
   [NoConfig EXCEPT !.order = <<"p:b", "p:a">>],
   [NoConfig EXCEPT !.order = <<"p:b", "p:a", "p:b", "p:oauth1", "p:a">>],
   [NoConfig EXCEPT !.profiles["p:b"] = CfgProfile(RunProvider, "api_key"),
                    !.profiles["p:a"] = CfgProfile(RunProvider, "api_key")]}

InitOrder ==
  /\ AllIdle
  /\ callIn \in [cfg : OrderConfigs, store : OrderStores, provider : {RunProvider},
                 preferredProfile : {None, "p:a", "p:b"}, t : {StartMs}]
  /\ callOut = NoCall

ResolveOrder ==
  /\ callOut = NoCall
  /\ callOut' = Returned1(resolveAuthProfileOrder(callIn.cfg, callIn.store, callIn.provider,
                                                 callIn.preferredProfile, callIn.t))
  /\ UNCHANGED <<worldVars, runVars, storeVars, laneVars, callVars, callIn>>

SpecOrder == InitOrder /\ [][ResolveOrder]_vars

\* SpecSync: syncExternalCliCredentials(store) with the credentials the two
\* CLI readers return.  callIn is the store, what readClaudeCliCredentials
\* and readCodexCliCredentials found (or NoCred) and Date.now(); callOut is
\* the function's result and the store after it.
CLAUDE_CLI_PROFILE_ID == "anthropic:claude-cli"
CODEX_CLI_PROFILE_ID == "openai-codex:codex-cli"
LegacyDefaultId == "p:default"
\* the profile ids of the stores that are loaded from disk
DiskIds == {LegacyDefaultId, CLAUDE_CLI_PROFILE_ID, CODEX_CLI_PROFILE_ID}

\* a credential with its secret (key, token, or access and refresh token)
Cred(type, provider, secret, expires) ==
  [type |-> type, provider |-> provider, secret |-> secret, expires |-> expires]

\* x ?? 0
OrZero(x) == IF x = Undef THEN 0 ELSE x

DiskStore(profiles) ==
  [profiles |-> profiles,
   lastGood |-> [q \in Providers |-> None],
   usageStats |-> [id \in DiskIds |-> NoStats]]

shallowEqualTokenCredentials(a, b) ==
  /\ a # NoCred
  /\ a.type = "token"
  /\ a.provider = b.provider
  /\ a.secret = b.secret
  /\ a.expires = b.expires

shallowEqualOAuthCredentials(a, b) ==
  /\ a # NoCred
  /\ a.type = "oauth"
  /\ a.provider = b.provider
  /\ a.secret = b.secret
  /\ a.expires = b.expires

\* the Claude CLI half of syncExternalCliCredentials
SyncClaude(store, claudeCreds, t) ==
  IF claudeCreds = NoCred THEN [mutated |-> FALSE, store |-> store]
  ELSE LET existing == store.profiles[CLAUDE_CLI_PROFILE_ID]
           existingToken == IF existing # NoCred /\ existing.type = "token"
                              THEN existing ELSE NoCred
           shouldUpdate ==
             \/ existingToken = NoCred
             \/ existingToken.provider # "anthropic"
             \/ OrZero(existingToken.expires) <= t
             \/ /\ OrZero(claudeCreds.expires) > t
                /\ OrZero(claudeCreds.expires) > OrZero(existingToken.expires)
       IN IF shouldUpdate /\ ~shallowEqualTokenCredentials(existingToken, claudeCreds)
            THEN [mutated |-> TRUE,
                  store |-> [store EXCEPT !.profiles[CLAUDE_CLI_PROFILE_ID] = claudeCreds]]
            ELSE [mutated |-> FALSE, store |-> store]

\* the Codex CLI half of syncExternalCliCredentials
SyncCodex(store, codexCreds, t) ==
  IF codexCreds = NoCred THEN [mutated |-> FALSE, store |-> store]
  ELSE LET existing == store.profiles[CODEX_CLI_PROFILE_ID]
           existingOAuth == IF existing # NoCred /\ existing.type = "oauth"
                              THEN existing ELSE NoCred
           shouldUpdate ==
             \/ existingOAuth = NoCred
             \/ existingOAuth.provider # "openai-codex"
             \/ existingOAuth.expires <= t
             \/ codexCreds.expires > existingOAuth.expires
       IN IF shouldUpdate /\ ~shallowEqualOAuthCredentials(existingOAuth, codexCreds)
            THEN [mutated |-> TRUE,
                  store |-> [store EXCEPT !.profiles[CODEX_CLI_PROFILE_ID] = codexCreds]]
            ELSE [mutated |-> FALSE, store |-> store]

syncExternalCliCredentials(store, claudeCreds, codexCreds, t) ==
  LET claude == SyncClaude(store, claudeCreds, t)
      codex == SyncCodex(claude.store, codexCreds, t)
  IN [mutated |-> claude.mutated \/ codex.mutated, store |-> codex.store]

SyncExpiries == {StartMs - 2000, StartMs - 1000, StartMs + 1000, StartMs + 2000}

\* what readClaudeCliCredentials returns: nothing, or a token of anthropic
ClaudeCliCreds ==
  {NoCred} \cup {Cred("token", "anthropic", "cli", e) : e \in SyncExpiries}

\* what readCodexCliCredentials returns: nothing, or an oauth credential
\* whose expiry is the file's mtime plus one hour
CodexCliCreds ==
  {NoCred} \cup {Cred("oauth", "openai-codex", "cli", e) : e \in SyncExpiries}

StoredClaude ==
  {NoCred, Cred("api_key", "anthropic", "own", Undef), Cred("token", "p", "own", StartMs + 2000)}
    \cup {Cred("token", "anthropic", s, e) : s \in {"cli", "own"}, e \in SyncExpiries \cup {Undef}}
    \cup {Cred("oauth", "anthropic", "own", e) : e \in {StartMs - 1000, StartMs + 2000}}

StoredCodex ==
  {NoCred, Cred("token", "openai-codex", "own", StartMs + 2000)}
    \cup {Cred("oauth", "openai-codex", s, e) : s \in {"cli", "own"}, e \in SyncExpiries}

SyncStores ==
  {DiskStore([id \in DiskIds |->
                CASE id = CLAUDE_CLI_PROFILE_ID -> a
                  [] id = CODEX_CLI_PROFILE_ID -> c
                  [] OTHER -> NoCred]) : a \in StoredClaude, c \in StoredCodex}

InitSync ==
  /\ AllIdle
  /\ callIn \in [store : SyncStores, claude : ClaudeCliCreds, codex : CodexCliCreds,
                 t : {StartMs}]
  /\ callOut = NoCall

SyncCall ==
  /\ callOut = NoCall
  /\ callOut' = Returned1(syncExternalCliCredentials(callIn.store, callIn.claude,
                                                    callIn.codex, callIn.t))
  /\ UNCHANGED <<worldVars, runVars, storeVars, laneVars, callVars, callIn>>

SpecSync == InitSync /\ [][SyncCall]_vars

\* SpecMigrate: ensureAuthProfileStore on the default agent directory, one
\* load after the other, while time passes.  files holds auth-profiles.json;
\* callIn holds the other files the load reads: the legacy auth.json, the
\* legacy oauth.json and what the two CLI readers find; callOut holds what
\* each load came to.
Corrupt == [corrupt |-> TRUE]
NoStore == [nostore |-> TRUE]
NoLegacy == [nolegacy |-> TRUE]
LegacyKeys == {"p"}

\* `${provider}:default`
DefaultIdOf(provider) == provider \o ":default"

ValidType(typed) == typed # NoCred /\ typed.type \in {"api_key", "oauth", "token"}

\* coerceLegacyStore: null for a file that does not parse, one that has a
\* "profiles" key and one without a valid entry; provider defaults to the key
coerceLegacyStore(raw) ==
  IF raw \in {Missing, Corrupt} \/ raw.hasProfiles THEN NoLegacy
  ELSE LET entries == [k \in LegacyKeys |->
                         IF ValidType(raw.entries[k])
                           THEN [raw.entries[k] EXCEPT !.provider =
                                   IF @ = None THEN k ELSE @]
                           ELSE NoCred]
       IN IF \A k \in LegacyKeys : entries[k] = NoCred THEN NoLegacy ELSE entries

\* coerceAuthStore: null for a file that does not parse; entries without a
\* valid type or without a provider are dropped
coerceAuthStore(raw) ==
  IF raw \in {Missing, Corrupt} THEN NoStore
  ELSE [raw EXCEPT !.profiles =
          [id \in DOMAIN raw.profiles |->
             IF /\ ValidType(raw.profiles[id])
                /\ raw.profiles[id].provider \notin {None, ""}
               THEN raw.profiles[id] ELSE NoCred]]

\* the store ensureAuthProfileStore builds from the legacy entries
MigratedStore(legacy) ==
  DiskStore([id \in DiskIds |->
               IF legacy # NoLegacy /\ \E k \in LegacyKeys : DefaultIdOf(k) = id
                 THEN legacy[CHOOSE k \in LegacyKeys : DefaultIdOf(k) = id]
                 ELSE NoCred])

\* mergeOAuthFileIntoStore: the entries of oauth.json become oauth profiles
\* `${provider}:default` unless the store has that profile
mergeOAuthFileIntoStore(store, oauthRaw) ==
  IF oauthRaw \in {Missing, Corrupt} THEN [mutated |-> FALSE, store |-> store]
  ELSE LET added == {k \in LegacyKeys : /\ oauthRaw[k] # NoCred
                                        /\ store.profiles[DefaultIdOf(k)] = NoCred}
       IN [mutated |-> added # {},
           store |-> [store EXCEPT !.profiles =
                        [id \in DiskIds |->
                           IF \E k \in added : DefaultIdOf(k) = id
                             THEN LET k == CHOOSE k \in added : DefaultIdOf(k) = id
                                  IN [oauthRaw[k] EXCEPT !.type = "oauth", !.provider = k]
                             ELSE store.profiles[id]]]]

\* what fs.writeFileSync can come to: the file is written, nothing is
\* written, or a part of it is
WriteOutcomes == {"ok", "failed", "partial"}

\* the file after saveJsonFile(authPath, store) came to outcome
SavedFile(file, store, outcome) ==
  CASE outcome = "ok" -> store
    [] outcome = "partial" -> Corrupt
    [] OTHER -> file

\* the load deletes the legacy file before it writes the new one
LoadFromLegacy_UnlinkFirst(file, disk, t, outcome, unlinkOk) ==
  LET legacy == coerceLegacyStore(disk.legacy)
      merged == mergeOAuthFileIntoStore(MigratedStore(legacy), disk.oauth)
      synced == syncExternalCliCredentials(merged.store, disk.claude, disk.codex, t)
      shouldWrite == legacy # NoLegacy \/ merged.mutated \/ synced.mutated
      unlinked == IF shouldWrite /\ legacy # NoLegacy /\ unlinkOk THEN Missing ELSE disk.legacy
  IN IF shouldWrite /\ outcome # "ok"
       THEN [threw |-> TRUE, migrated |-> FALSE, store |-> NoStore,
             file |-> SavedFile(file, synced.store, outcome), legacy |-> unlinked]
       ELSE [threw |-> FALSE, migrated |-> legacy # NoLegacy, store |-> synced.store,
             file |-> IF shouldWrite THEN synced.store ELSE file, legacy |-> unlinked]

\* ensureAuthProfileStore when auth-profiles.json gives no store: migrate
\* the legacy entries, merge, sync, save, and then delete the legacy file
LoadFromLegacy(file, disk, t, outcome, unlinkOk) ==
  LET legacy == coerceLegacyStore(disk.legacy)
      merged == mergeOAuthFileIntoStore(MigratedStore(legacy), disk.oauth)
      synced == syncExternalCliCredentials(merged.store, disk.claude, disk.codex, t)
      shouldWrite == legacy # NoLegacy \/ merged.mutated \/ synced.mutated
  IN IF shouldWrite /\ outcome # "ok"
       THEN [threw |-> TRUE, migrated |-> FALSE, store |-> NoStore,
             file |-> SavedFile(file, synced.store, outcome), legacy |-> disk.legacy]
       ELSE [threw |-> FALSE, migrated |-> legacy # NoLegacy, store |-> synced.store,
             file |-> IF shouldWrite THEN synced.store ELSE file,
             legacy |-> IF shouldWrite /\ legacy # NoLegacy /\ unlinkOk
                          THEN Missing ELSE disk.legacy]

\* ensureAuthProfileStore: what it returns or that it threw, and the two
\* files after it
ensureAuthProfileStore(file, disk, t, outcome, unlinkOk) ==
  LET asStore == coerceAuthStore(file)
  IN IF asStore # NoStore
       THEN LET synced == syncExternalCliCredentials(asStore, disk.claude, disk.codex, t)
            IN IF synced.mutated /\ outcome # "ok"
                 THEN [threw |-> TRUE, migrated |-> FALSE, store |-> NoStore,
                       file |-> SavedFile(file, synced.store, outcome),
                       legacy |-> disk.legacy]
                 ELSE [threw |-> FALSE, migrated |-> FALSE, store |-> synced.store,
                       file |-> IF synced.mutated THEN synced.store ELSE file,
                       legacy |-> disk.legacy]
       ELSE LoadFromLegacy(file, disk, t, outcome, unlinkOk)

\* auth.json: absent, in the new format by mistake, or one entry per provider
LegacyEntries ==
  {NoCred,
   Cred("bogus", None, "legacy-key", Undef),
   Cred("api_key", None, "legacy-key", Undef),
   Cred("token", "p", "legacy-token", StartMs + 2000),
   Cred("oauth", "p", "legacy-access", StartMs - 1000)}

LegacyFiles ==
  {Missing}
    \cup {[hasProfiles |-> TRUE, entries |-> [k \in LegacyKeys |-> NoCred]]}
    \cup {[hasProfiles |-> FALSE, entries |-> [k \in LegacyKeys |-> e]] : e \in LegacyEntries}

\* oauth.json: absent, or the OAuth credentials of provider p
OAuthFiles ==
  {Missing, [k \in LegacyKeys |-> Cred("oauth", k, "oauth-json-access", StartMs + 1000)]}

InitMigrate ==
  /\ RunIdle
  /\ StoreIdle
  /\ LanesIdle
  /\ CallersIdle
  /\ files \in {[d \in Dirs |-> f] : f \in {Missing, Corrupt}}
  /\ now = StartMs
  /\ ticks = 0
  /\ callIn \in [legacy : LegacyFiles, oauth : OAuthFiles,
                 claude : {NoCred, Cred("token", "anthropic", "cli", StartMs + 2000)},
                 codex : {NoCred, Cred("oauth", "openai-codex", "cli", StartMs - 1000)}]
  /\ callOut = [loads |-> <<>>]

LoadStore ==
  /\ Len(callOut.loads) < MaxLoads
  /\ \E outcome \in WriteOutcomes, unlinkOk \in BOOLEAN :
       LET r == ensureAuthProfileStore(files[DefaultDir], callIn, now, outcome, unlinkOk)
       IN /\ files' = [files EXCEPT ![DefaultDir] = r.file]
          /\ callIn' = [callIn EXCEPT !.legacy = r.legacy]
          /\ callOut' = [loads |-> Append(callOut.loads,
                                          [threw |-> r.threw, migrated |-> r.migrated,
                                           store |-> r.store])]
  /\ UNCHANGED <<now, ticks, runVars, storeVars, laneVars, callVars>>

MigrateTick ==
  /\ ticks < MaxMarkTicks
  /\ now' = now + TickMs
  /\ ticks' = ticks + 1
  /\ UNCHANGED <<files, runVars, storeVars, laneVars, callVars, pureVars>>

NextMigrate == LoadStore \/ MigrateTick

SpecMigrate == InitMigrate /\ [][NextMigrate]_vars

\* SpecResolve: resolveApiKeyForProfile by one caller, for a profile of the
\* store file of the default agent directory.  callIn is the config, the
\* caller's store and the profile id; callOut is what the call came to and
\* what it did on the way: the lock it took, the refresh calls it made and
\* those that threw, the writes of the store file and the other profile it
\* tried.
ResolveIds == <<"p:default", "p:work", "p:me@x.io">>
ResolveSet == Range(ResolveIds)
ConfiguredEmail == "me@x.io"

\* getProfileSuffix: what follows the first ":" of the id
getProfileSuffix(id) ==
  CASE id = "p:default" -> "default"
    [] id = "p:work" -> "work"
    [] id = "p:me@x.io" -> "me@x.io"
    [] OTHER -> ""

\* isEmailLike: the value has an "@" and a "."
isEmailLike(value) == value \in {"me@x.io"}

CredMail(type, provider, secret, expires, email) ==
  [type |-> type, provider |-> provider, secret |-> secret, expires |-> expires,
   email |-> email]

ResolveCfgProfile(provider, mode, email) ==
  [provider |-> provider, mode |-> mode, email |-> email]

FreshAt == StartMs + 60 * 60 * 1000

NullKey == [kind |-> "null"]
ThrownError == [kind |-> "threw"]
KeyOf(id, cred) == [kind |-> "key", profileId |-> id, apiKey |-> cred.secret]

Did(op, id) == [op |-> op, id |-> id]

\* every config counts as compatible with the stored credential
ConfigCompatible_Any(profileConfig, cred) == TRUE

\* the config of the profile agrees with the stored credential: the same
\* provider, and the mode is the credential's type or the mode is "oauth"
\* and the credential a token
ConfigCompatible(profileConfig, cred) ==
  \/ profileConfig = NoCfgProfile
  \/ /\ profileConfig.provider = cred.provider
     /\ \/ profileConfig.mode = cred.type
        \/ profileConfig.mode = "oauth" /\ cred.type = "token"

\* refreshOAuthTokenWithLock: [out, file, events]
refreshOAuthTokenWithLock(file, id, t, lock, refresh) ==
  IF lock # "ok" THEN [out |-> ThrownError, file |-> file, events |-> <<Did("failed", id)>>]
  ELSE LET cred == file.profiles[id]
           locked == <<Did("lock", id)>>
       IN IF cred = NoCred \/ cred.type # "oauth"
            THEN [out |-> NullKey, file |-> file, events |-> locked]
          ELSE IF t < cred.expires
            THEN [out |-> KeyOf(id, cred), file |-> file, events |-> locked]
          ELSE CASE refresh = "ok" ->
                      LET new == [cred EXCEPT !.expires = t + 60 * 60 * 1000,
                                              !.secret = "refreshed"]
                      IN [out |-> KeyOf(id, new),
                          file |-> [file EXCEPT !.profiles[id] = new],
                          events |-> locked \o <<Did("refresh", id), Did("write", id)>>]
                 [] refresh = "null" ->
                      [out |-> NullKey, file |-> file,
                       events |-> locked \o <<Did("refresh", id)>>]
                 [] OTHER ->
                      [out |-> ThrownError, file |-> file,
                       events |-> locked \o <<Did("refresh", id), Did("failed", id)>>]

\* tryResolveOAuthProfile
tryResolveOAuthProfile(cfg, store, file, id, t, lock, refresh) ==
  LET cred == store.profiles[id]
      profileConfig == cfg.profiles[id]
  IN IF cred = NoCred \/ cred.type # "oauth"
       THEN [out |-> NullKey, file |-> file, events |-> <<>>]
     ELSE IF profileConfig # NoCfgProfile /\ profileConfig.provider # cred.provider
       THEN [out |-> NullKey, file |-> file, events |-> <<>>]
     ELSE IF profileConfig # NoCfgProfile /\ profileConfig.mode # cred.type
       THEN [out |-> NullKey, file |-> file, events |-> <<>>]
     ELSE IF t < cred.expires
       THEN [out |-> KeyOf(id, cred), file |-> file, events |-> <<>>]
     ELSE refreshOAuthTokenWithLock(file, id, t, lock, refresh)

\* the legacy id's suffix is not looked at
suggestOAuthProfileIdForLegacyDefault_AnyId(cfg, store, provider, legacyProfileId) ==
  LET legacyCfg == cfg.profiles[legacyProfileId]
      oauthProfiles == Filter(ResolveIds,
                              {id \in ResolveSet : /\ store.profiles[id] # NoCred
                                                   /\ store.profiles[id].provider = provider
                                                   /\ store.profiles[id].type = "oauth"})
      nonLegacy == Filter(oauthProfiles, ResolveSet \ {legacyProfileId})
  IN IF Len(nonLegacy) = 1 THEN nonLegacy[1] ELSE None

\* suggestOAuthProfileIdForLegacyDefault: the id to try instead, or None
suggestOAuthProfileIdForLegacyDefault(cfg, store, provider, legacyProfileId) ==
  LET legacyCfg == cfg.profiles[legacyProfileId]
      oauthProfiles == Filter(ResolveIds,
                              {id \in ResolveSet : /\ store.profiles[id] # NoCred
                                                   /\ store.profiles[id].provider = provider
                                                   /\ store.profiles[id].type = "oauth"})
      configuredEmail == IF legacyCfg = NoCfgProfile THEN None ELSE legacyCfg.email
      byEmail == Filter(oauthProfiles,
                        {id \in ResolveSet :
                           /\ store.profiles[id] # NoCred
                           /\ \/ store.profiles[id].email = configuredEmail
                              \/ id = provider \o ":" \o configuredEmail})
      lastGood == IF provider \in DOMAIN store.lastGood THEN store.lastGood[provider] ELSE None
      nonLegacy == Filter(oauthProfiles, ResolveSet \ {legacyProfileId})
      emailLike == Filter(nonLegacy, {id \in ResolveSet : isEmailLike(getProfileSuffix(id))})
  IN IF getProfileSuffix(legacyProfileId) # "default" THEN None
     ELSE IF /\ legacyCfg # NoCfgProfile
             /\ legacyCfg.provider = provider
             /\ legacyCfg.mode # "oauth" THEN None
     ELSE IF oauthProfiles = <<>> THEN None
     ELSE IF configuredEmail # None /\ byEmail # <<>> THEN byEmail[1]
     ELSE IF lastGood # None /\ Includes(oauthProfiles, lastGood) THEN lastGood
     ELSE IF Len(nonLegacy) = 1 THEN nonLegacy[1]
     ELSE IF Len(emailLike) = 1 THEN emailLike[1]
     ELSE None

\* what the catch block of resolveApiKeyForProfile does after the refresh
\* threw: refreshedStore is the file as it is by then
AfterRefreshError(cfg, refreshedStore, cred, id, t, events, lock, refresh) ==
  LET refreshed == refreshedStore.profiles[id]
      fallbackProfileId ==
        suggestOAuthProfileIdForLegacyDefault(cfg, refreshedStore, cred.provider, id)
  IN IF refreshed # NoCred /\ refreshed.type = "oauth" /\ t < refreshed.expires
       THEN [out |-> KeyOf(id, refreshed), file |-> refreshedStore, events |-> events]
     ELSE IF fallbackProfileId # None /\ fallbackProfileId # id
       THEN LET fb == tryResolveOAuthProfile(cfg, refreshedStore, refreshedStore,
                                             fallbackProfileId, t, lock, refresh)
                tried == events \o <<Did("fallback", fallbackProfileId)>> \o fb.events
            IN IF fb.out.kind = "key"
                 THEN [out |-> fb.out, file |-> fb.file, events |-> tried]
                 ELSE [out |-> ThrownError, file |-> fb.file, events |-> tried]
     ELSE [out |-> ThrownError, file |-> refreshedStore, events |-> events]

\* resolveApiKeyForProfile.  env says how the lock, the provider's refresh
\* and, for the other profile tried, its lock and refresh come out, and
\* whether another process has refreshed the profile by the time the store
\* is read again
resolveApiKeyForProfile(cfg, store, file, id, t, env) ==
  LET cred == store.profiles[id]
      quiet == [file |-> file, events |-> <<>>]
  IN IF cred = NoCred THEN [out |-> NullKey] @@ quiet
     ELSE IF ~ConfigCompatible(cfg.profiles[id], cred) THEN [out |-> NullKey] @@ quiet
     ELSE IF cred.type = "api_key" THEN [out |-> KeyOf(id, cred)] @@ quiet
     ELSE IF cred.type = "token"
       THEN IF cred.secret = "" \/ (cred.expires # Undef /\ cred.expires > 0 /\ t >= cred.expires)
              THEN [out |-> NullKey] @@ quiet
              ELSE [out |-> KeyOf(id, cred)] @@ quiet
     ELSE IF t < cred.expires THEN [out |-> KeyOf(id, cred)] @@ quiet
     ELSE LET first == refreshOAuthTokenWithLock(file, id, t, env.lock, env.refresh)
          IN IF first.out.kind # "threw" THEN first
             ELSE LET refreshedStore ==
                        IF env.raced /\ file.profiles[id] # NoCred
                          THEN [file EXCEPT !.profiles[id].expires = t + 60 * 60 * 1000,
                                            !.profiles[id].secret = "refreshed elsewhere"]
                          ELSE file
                  IN AfterRefreshError(cfg, refreshedStore, cred, id, t, first.events,
                                       env.fallbackLock, env.fallbackRefresh)

ResolveEnvs ==
  [lock : {"ok", "timeout"}, refresh : {"ok", "null", "throws"}, raced : BOOLEAN,
   fallbackLock : {"ok", "timeout"}, fallbackRefresh : {"ok", "throws"}]

ResolveStores ==
  {[profiles |-> [id \in ResolveSet |->
                    CASE id = "p:default" -> d
                      [] id = "p:work" -> w
                      [] OTHER -> m],
    lastGood |-> [q \in Providers |-> g],
    usageStats |-> [id \in ResolveSet |-> NoStats]] :
     d \in {CredMail("oauth", "p", "d-access", ExpiredAt, None),
            CredMail("oauth", "p", "d-access", ExpiredAt, ConfiguredEmail),
            CredMail("token", "p", "d-token", FreshAt, None),
            CredMail("token", "p", "d-token", ExpiredAt, None),
            CredMail("api_key", "p", "d-key", Undef, None)},
     w \in {NoCred,
            CredMail("oauth", "p", "w-access", ExpiredAt, None),
            CredMail("oauth", "p", "w-access", FreshAt, None),
            CredMail("oauth", "q", "w-access", FreshAt, None),
            CredMail("api_key", "p", "w-key", Undef, None)},
     m \in {NoCred,
            CredMail("oauth", "p", "m-access", FreshAt, ConfiguredEmail),
            CredMail("oauth", "p", "m-access", ExpiredAt, None)},
     g \in {None} \cup ResolveSet}

ResolveConfigs ==
  {[profiles |-> [id \in ResolveSet |-> IF id = called THEN c ELSE NoCfgProfile]] :
     called \in {"p:default", "p:work"},
     c \in {NoCfgProfile,
            ResolveCfgProfile("p", "oauth", None),
            ResolveCfgProfile("p", "oauth", ConfiguredEmail),
            ResolveCfgProfile("p", "token", None),
            ResolveCfgProfile("p", "api_key", None),
            ResolveCfgProfile("q", "oauth", None)}}

InitResolve ==
  /\ RunIdle
  /\ StoreIdle
  /\ LanesIdle
  /\ CallersIdle
  /\ now = StartMs
  /\ ticks = 0
  /\ callIn \in [cfg : ResolveConfigs, store : ResolveStores,
                 profileId : {"p:default", "p:work"}]
  /\ files = [d \in Dirs |-> callIn.store]
  /\ callOut = NoCall

ResolveCall ==
  /\ callOut = NoCall
  /\ \E env \in ResolveEnvs :
       LET r == resolveApiKeyForProfile(callIn.cfg, callIn.store, files[DefaultDir],
                                        callIn.profileId, now, env)
       IN /\ callOut' = [out |-> r.out, events |-> r.events]
          /\ files' = [files EXCEPT ![DefaultDir] = r.file]
  /\ UNCHANGED <<now, ticks, runVars, storeVars, laneVars, callVars, callIn>>

SpecResolve == InitResolve /\ [][ResolveCall]_vars

\* SpecMask: the functions that shorten a secret for a label, a status line
\* or an error text.  A secret is a sequence of characters; callIn is the
\* function and the secret, callOut the text shown.
KeyChar(i) == "k" \o ToString(i)

\* a secret of n different characters, with white space around it or not
SecretOf(n, padded) ==
  LET key == [i \in 1..n |-> KeyChar(i)]
  IN IF padded THEN <<" ">> \o key \o <<" ">> ELSE key

\* String.prototype.slice(0, n)
SliceHead(s, n) == SubSeq(s, 1, Min(n, Len(s)))

\* String.prototype.slice(-n)
SliceTail(s, n) == SubSeq(s, Max(1, Len(s) - n + 1), Len(s))

\* value.trim() and value.replace(/\s+/g, "") of a secret with white space
\* at its ends only
TrimSecret(s) == Filter(s, Range(s) \ {" "})

\* formatApiKeySnippet of the status command
formatApiKeySnippet(apiKey) ==
  LET compact == TrimSecret(apiKey)
      edge == IF Len(compact) >= 12 THEN 6 ELSE 4
  IN IF compact = <<>> THEN <<"unknown">>
     ELSE SliceHead(compact, edge) \o <<"ellipsis">> \o SliceTail(compact, edge)

\* maskApiKey of the directive handling and of the model listing
maskApiKey(value) ==
  LET trimmed == TrimSecret(value)
  IN IF trimmed = <<>> THEN <<"missing">>
     ELSE IF Len(trimmed) <= 16 THEN trimmed
     ELSE SliceHead(trimmed, 8) \o <<".", ".", ".">> \o SliceTail(trimmed, 8)

MaskFunctions == {"formatApiKeySnippet", "maskApiKey"}

InitMask ==
  /\ AllIdle
  /\ callIn \in [fn : MaskFunctions, n : 0..MaxKeyLen, padded : BOOLEAN]
  /\ callOut = NoCall

MaskCall ==
  /\ callOut = NoCall
  /\ callOut' = Returned1(IF callIn.fn = "maskApiKey"
                            THEN maskApiKey(SecretOf(callIn.n, callIn.padded))
                            ELSE formatApiKeySnippet(SecretOf(callIn.n, callIn.padded)))
  /\ UNCHANGED <<worldVars, runVars, storeVars, laneVars, callVars, callIn>>

SpecMask == InitMask /\ [][MaskCall]_vars

\* SpecDebounce: createMessageDebouncer of the example bot.  callIn holds
\* the messages enqueued so far; callOut holds the debouncer's pending map
\* (per key the messages and the time left on the timer) and the batches
\* handed to onFlush, in the order of the calls.
DebounceKeys == {"c1:u1", "c1:u2"}
NoEntry == [absent |-> TRUE]

\* shouldDebounce: no attachment and no "/" or "!" at the start
shouldDebounce(message) == ~message.attachment /\ ~message.command

\* flush(key): the entry is deleted, its timer cleared and its messages are
\* handed to onFlush
flush(deb, key) ==
  IF deb.pending[key] = NoEntry THEN deb
  ELSE [pending |-> [deb.pending EXCEPT ![key] = NoEntry],
        flushed |-> IF deb.pending[key].messages # <<>>
                      THEN Append(deb.flushed, deb.pending[key].messages)
                      ELSE deb.flushed]

\* the message is handed on before the batch pending for its key
enqueue_ImmediateFirst(deb, message, key) ==
  IF ~shouldDebounce(message)
    THEN flush([deb EXCEPT !.flushed = Append(@, <<message>>)], key)
    ELSE LET entry == IF deb.pending[key] = NoEntry
                        THEN [messages |-> <<>>, timer |-> 0] ELSE deb.pending[key]
         IN [deb EXCEPT !.pending[key] =
               [messages |-> Append(entry.messages, message), timer |-> WindowTicks]]

\* enqueue(message), key = buildKey(message)
enqueue(deb, message, key) ==
  IF ~shouldDebounce(message)
    THEN LET flushedFirst == flush(deb, key)
         IN [flushedFirst EXCEPT !.flushed = Append(@, <<message>>)]
    ELSE LET entry == IF deb.pending[key] = NoEntry
                        THEN [messages |-> <<>>, timer |-> 0] ELSE deb.pending[key]
         IN [deb EXCEPT !.pending[key] =
               [messages |-> Append(entry.messages, message), timer |-> WindowTicks]]

InitDebounce ==
  /\ AllIdle
  /\ callIn = [sent |-> <<>>]
  /\ callOut = [pending |-> [k \in DebounceKeys |-> NoEntry], flushed |-> <<>>]

\* a message arrives
DebounceEnqueue ==
  /\ Len(callIn.sent) < MaxMessages
  /\ \E key \in DebounceKeys, attachment \in BOOLEAN, command \in BOOLEAN :
       LET message == [id |-> Len(callIn.sent) + 1, key |-> key,
                       attachment |-> attachment, command |-> command]
       IN /\ callIn' = [sent |-> Append(callIn.sent, message)]
          /\ callOut' = enqueue(callOut, message, key)
  /\ UNCHANGED <<worldVars, runVars, storeVars, laneVars, callVars>>

\* time passes: every timer that is set has less time left
DebounceTick ==
  /\ \E k \in DebounceKeys : callOut.pending[k] # NoEntry /\ callOut.pending[k].timer > 0
  /\ callOut' = [callOut EXCEPT !.pending =
                   [k \in DebounceKeys |->
                      IF callOut.pending[k] = NoEntry THEN NoEntry
                      ELSE [callOut.pending[k] EXCEPT !.timer = Max(0, @ - 1)]]]
  /\ UNCHANGED <<worldVars, runVars, storeVars, laneVars, callVars, callIn>>

\* the timer of a key fires: setTimeout(() => void flush(key), debounceMs)
DebounceTimerFire(key) ==
  /\ callOut.pending[key] # NoEntry
  /\ callOut.pending[key].timer = 0
  /\ callOut' = flush(callOut, key)
  /\ UNCHANGED <<worldVars, runVars, storeVars, laneVars, callVars, callIn>>

\* flushAll(): every key of the pending map is flushed, in the map's order
DebounceFlushAll ==
  /\ \E k \in DebounceKeys : callOut.pending[k] # NoEntry
  /\ callOut' = flush(flush(callOut, "c1:u1"), "c1:u2")
  /\ UNCHANGED <<worldVars, runVars, storeVars, laneVars, callVars, callIn>>

NextDebounce ==
  \/ DebounceEnqueue
  \/ DebounceTick
  \/ \E key \in DebounceKeys : DebounceTimerFire(key)
  \/ DebounceFlushAll

SpecDebounce == InitDebounce /\ [][NextDebounce]_vars

\* the clock goes on and a timer that has run out fires
FairDebounce ==
  /\ SpecDebounce
  /\ WF_vars(DebounceTick)
  /\ \A key \in DebounceKeys : WF_vars(DebounceTimerFire(key))

\* SpecCommands: handleCommands on one chat message.  callIn is the message
\* as the handler sees it; callOut what the handler returned and did.
\*   command  commandBodyNormalized: one of the commands, or other text
\*   trigger  isAbortTrigger(rawBodyNormalized)
\*   target   what the handler has of the session: its entry in the session
\*            store ("stored"), the entry alone ("unstored", with an abort
\*            key), an abort key alone ("key"), or nothing ("none")
\*   active   a run of the session is registered
Commands ==
  {"/reset", "/activation", "/send", "/restart", "/help", "/status", "/stop",
   "/compact", "text"}
Targets == {"stored", "unstored", "key", "none"}

\* resolveAbortTarget, and command.abortKey
resolveAbortTarget(target) ==
  [entry |-> target \in {"stored", "unstored"},
   store |-> target = "stored",
   sessionId |-> target \in {"stored", "unstored"},
   abortKey |-> target \in {"unstored", "key"}]

\* what a handler returns and does: the reply, abortEmbeddedPiRun called
\* with the session id, and the abort recorded (abortedLastRun on the
\* session entry, or the abort memory of the abort key)
Ignored == [shouldContinue |-> FALSE, reply |-> None, abortCalled |-> FALSE, marked |-> None]
Replied(text) == [Ignored EXCEPT !.reply = text]
Continue == [Ignored EXCEPT !.shouldContinue = TRUE]

\* lines 592-611 and 695-714: abort the target's run and record the abort
AbortTarget(msg) ==
  LET abortTarget == resolveAbortTarget(msg.target)
  IN [shouldContinue |-> FALSE,
      reply |-> "Agent was aborted.",
      abortCalled |-> abortTarget.sessionId,
      marked |-> IF abortTarget.entry /\ abortTarget.store THEN "abortedLastRun"
                 ELSE IF abortTarget.abortKey THEN "abortMemory"
                 ELSE None]

\* lines 617-690: /compact
Compact(msg) ==
  IF ~msg.authorized THEN Ignored
  ELSE IF ~resolveAbortTarget(msg.target).sessionId THEN Replied("Compaction unavailable")
  ELSE [Replied("Compacted") EXCEPT !.abortCalled = msg.active]

handleCommands(msg) ==
  LET allowTextCommands == msg.allowTextCommands
      body == msg.command
  IN IF body = "/reset" /\ ~msg.authorized THEN Ignored
     ELSE IF allowTextCommands /\ body = "/activation"
       THEN IF ~msg.isGroup THEN Replied("Group activation only applies to group chats.")
            ELSE IF ~msg.authorized THEN Ignored
            ELSE Replied("Group activation set")
     ELSE IF allowTextCommands /\ body \in {"/send", "/restart", "/help"}
       THEN IF ~msg.authorized THEN Ignored ELSE Replied(body)
     ELSE IF allowTextCommands /\ body = "/status"
       THEN IF ~msg.authorized THEN Ignored ELSE Replied("status")
     ELSE IF allowTextCommands /\ body = "/stop"
       THEN IF ~msg.authorized THEN Ignored ELSE AbortTarget(msg)
     ELSE IF body = "/compact" THEN Compact(msg)
     ELSE IF allowTextCommands /\ msg.trigger THEN AbortTarget(msg)
     ELSE IF msg.sendDenied THEN Ignored
     ELSE Continue

\* the messages: only "/stop" and other text can be abort trigger texts, and
\* only "/activation" looks at the kind of chat
ChatMessages ==
  {msg \in [command : Commands, trigger : BOOLEAN, authorized : BOOLEAN,
            allowTextCommands : BOOLEAN, isGroup : BOOLEAN, target : Targets,
            active : BOOLEAN, sendDenied : BOOLEAN] :
     /\ msg.trigger => msg.command \in {"/stop", "text"}
     /\ ~msg.isGroup => msg.command = "/activation"
     /\ msg.active => msg.target \in {"stored", "unstored"}}

InitCommands ==
  /\ AllIdle
  /\ callIn \in ChatMessages
  /\ callOut = NoCall

CommandCall ==
  /\ callOut = NoCall
  /\ callOut' = handleCommands(callIn)
  /\ UNCHANGED <<worldVars, runVars, storeVars, laneVars, callVars, callIn>>

SpecCommands == InitCommands /\ [][CommandCall]_vars

(***************************************************************************)
(* Properties of the run                                                   *)
(***************************************************************************)
\* a capability-fallback retry is about to start its attempt
FallbackRetryPending == pc = "loop" /\ startedBy = "fallback"

\* the statistics of profile id in the store file of the run's agent directory
RunFileStats(id) == files[agentDir].usageStats[id]

\* profile id carries a cooldown set after the statistics before: one more
\* error counted, and cooldownUntil in the future
CooldownRecorded(id, before) ==
  /\ RunFileStats(id) # NoStats
  /\ RunFileStats(id).errorCount = (IF before = NoStats THEN 0 ELSE before.errorCount) + 1
  /\ RunFileStats(id).cooldownUntil > now

Rank ==
  (Len(profileCandidates) - profileIndex) * (Cardinality(Levels) + 1)
    + Cardinality(Levels \ attemptedThinking)

\* C6: every run terminates, each attempt returning: starting an attempt
\* uses up a level not yet attempted on the current candidate, and going
\* round the loop moves to a strictly later candidate or stays; so the
\* number of attempts left, which is never negative, falls with every attempt
C6_RunTerminates ==
  [][/\ Rank' >= 0
     /\ (pc = "loop" /\ pc' = "prompt") => Rank' < Rank
     /\ (pc = "prompt" /\ pc' = "loop") =>
          /\ Rank' <= Rank
          /\ profileIndex' > profileIndex
               \/ (profileIndex' = profileIndex /\ thinkLevel' \notin attemptedThinking)]_vars

\* a run ends after all candidates and, on the last one, all levels were attempted
C6_Witness ==
  /\ pc = "done"
  /\ Len(profileCandidates) = 2
  /\ profileIndex = 2
  /\ attemptedThinking = Levels

\* C7: when an attempt on a profile is classified auth error, rate limit or
\* timeout and the run moves on to another candidate, the profile is in
\* cooldown in the store (one more error, cooldownUntil in the future) before
\* the next attempt starts, however the failure was reported
C7_CooldownBeforeRotation ==
  (pc = "loop" /\ startedBy = "rotate" /\ prev.failover /\ prev.profile # None)
    => CooldownRecorded(prev.profile, prev.stats)

\* C8: with a pinned profile, no attempt runs on any other profile, and a
\* failure of the pinned profile by auth error, rate limit or timeout ends
\* the run in failure
C8_PinnedNeverRotates ==
  explicitProfileId # None =>
    /\ pc \in {"loop", "prompt"} => lastProfileId = explicitProfileId
    /\ (pc = "done" /\ prev.failover) => runResult = Threw

\* C9: an attempt classified context overflow ends the run at once with the
\* history-reset text; no rotation, no retry, no cooldown for the profile
C9_OverflowIsTerminal ==
  prev.overflow =>
    /\ pc = "done"
    /\ runResult = Returned("reset")
    /\ prev.profile # None =>
         \A d \in Dirs : ~isProfileInCooldown(files[d], prev.profile, now)

\* C10: when the attempt on profile P of provider Q succeeded and the run
\* has returned, the store holds lastGood[Q] = P, errorCount 0, no
\* cooldownUntil and lastUsed = the time of the success
C10_SuccessRecorded ==
  (pc = "done" /\ prev.success /\ prev.profile # None) =>
    /\ files[agentDir].lastGood[RunProvider] = prev.profile
    /\ RunFileStats(prev.profile) # NoStats
    /\ RunFileStats(prev.profile).errorCount = 0
    /\ RunFileStats(prev.profile).cooldownUntil = Undef
    /\ RunFileStats(prev.profile).lastUsed = now

\* the run began on ScenarioStore with no preferred profile and has made one
\* attempt on each candidate so far, each at the initial thinking level
ScenarioRun ==
  /\ explicitProfileId = None
  /\ profileCandidates = <<"p:oauth1", "p:a">>
  /\ usedLevels = {initialThinkLevel}

\* C11: with profiles p:a (API key, never used) and p:oauth1 (OAuth, valid)
\* and no preferred profile, the order is p:oauth1, p:a; after the first
\* attempt, on p:oauth1, ended in an auth error, p:oauth1 is in cooldown for
\* one minute with errorCount 1 when the second attempt is due; after that
\* attempt, on p:a, succeeded, the store holds lastGood[p] = p:a and p:a has
\* errorCount 0 and no cooldown
C11_ScenarioAuthErrorThenSuccess ==
  /\ resolveAuthProfileOrder(NoConfig, ScenarioStore, RunProvider, None, now)
       = <<"p:oauth1", "p:a">>
  /\ (ScenarioRun /\ pc = "loop" /\ profileIndex = 2 /\ prev.auth
        /\ prev.profile = "p:oauth1")
       => /\ RunFileStats("p:oauth1") # NoStats
          /\ RunFileStats("p:oauth1").errorCount = 1
          /\ RunFileStats("p:oauth1").cooldownUntil = now + 60 * 1000
  /\ (ScenarioRun /\ pc = "done" /\ profileIndex = 2 /\ startedBy = "rotate"
        /\ prev.success /\ prev.profile = "p:a")
       => /\ files[agentDir].lastGood[RunProvider] = "p:a"
          /\ RunFileStats("p:a") # NoStats
          /\ RunFileStats("p:a").errorCount = 0
          /\ RunFileStats("p:a").cooldownUntil = Undef

\* the run is over and its last attempt called for a rotation (auth error,
\* rate limit or timeout) that found no candidate
ExhaustedAtEnd == pc = "done" /\ prev.failover

\* C12: when a failed attempt requires rotation and no candidate remains,
\* the run ends by raising an error; it does not return a normal result
C12_ExhaustionRaises == ExhaustedAtEnd => runResult.kind = "threw"

\* the attempt in flight is classified in this step
AttemptClassified == pc = "prompt" /\ pc' # "prompt"

\* C13: when an attempt fails with an error that is none of context
\* overflow, auth error, rate limit, timeout or unsupported capability, the
\* run rotates to a later candidate if candidates remain and a fallback model
\* list is configured; otherwise the run fails, raising the error or
\* returning its text
C13_OtherErrorRotatesWithFallbacks ==
  [][(AttemptClassified /\ prev'.other) =>
       IF fallbackConfigured /\ profileIndex < Len(profileCandidates)
         THEN pc' = "loop" /\ profileIndex' > profileIndex
         ELSE pc' = "done" /\ (runResult'.kind = "threw" \/ runResult'.text = "error")]_vars

\* the key of the pinned profile was not resolved, or the pinned profile is
\* not among the candidates
PinnedUnusable ==
  /\ explicitProfileId # None
  /\ pc # "init"
  /\ \/ ~Includes(profileCandidates, explicitProfileId)
     \/ \E i \in keyFailed : profileCandidates[i] = explicitProfileId

\* no attempt was started and no profile's key was applied
NothingAttempted == usedLevels = {} /\ lastProfileId = None

\* C14: when the pinned profile is not among the candidates or its key is
\* not resolved, the run fails at once: no attempt is made and no other
\* profile is used.  Any other candidate whose key is not resolved is
\* skipped: the first attempt runs on the first candidate whose key
\* resolves, and the run fails before its first attempt only when no key
\* resolved at all
C14_PinnedFailsOthersSkipped ==
  /\ PinnedUnusable => (pc = "done" /\ runResult = Threw /\ NothingAttempted)
  /\ (pc = "loop" /\ usedLevels = {}) =>
       /\ keyFailed = 1..(profileIndex - 1)
       /\ lastProfileId = profileCandidates[profileIndex]
  /\ (pc = "done" /\ usedLevels = {} /\ ~PinnedUnusable) =>
       (runResult = Threw /\ keyFailed = 1..Len(profileCandidates))

\* the first candidate's key was not resolved, it was skipped, and the first
\* attempt is about to run on the second candidate
C14_Witness ==
  /\ pc = "loop" /\ usedLevels = {}
  /\ explicitProfileId = None
  /\ keyFailed = {1}
  /\ profileIndex = 2
  /\ lastProfileId = profileCandidates[2]


\* C33: when the run is over after its last attempt, on profile P, was
\* classified auth error, rate limit or timeout and no later candidate could
\* be used, P is in cooldown in the run's store (cooldownUntil in the future,
\* errorCount at least 1), with or without a fallback model list
C33_CooldownAtExhaustion ==
  (ExhaustedAtEnd /\ prev.profile # None) =>
    /\ RunFileStats(prev.profile) # NoStats
    /\ RunFileStats(prev.profile).errorCount >= 1
    /\ RunFileStats(prev.profile).cooldownUntil # Undef
    /\ RunFileStats(prev.profile).cooldownUntil > now


\* the file the run's marks go to holds the marks of a success of the
\* current profile: lastGood, no errors, no cooldown, used now
GoodAndUsedInFile ==
  LET f == files[RunMarkDir(agentDir)]
  IN /\ lastProfileId # None
     /\ f.lastGood[RunProvider] = lastProfileId
     /\ f.usageStats[lastProfileId] # NoStats
     /\ f.usageStats[lastProfileId].errorCount = 0
     /\ f.usageStats[lastProfileId].cooldownUntil = Undef
     /\ f.usageStats[lastProfileId].lastUsed = now

\* C34: a run marks a profile good and used (lastGood set, errorCount reset,
\* cooldown cleared) only if its final attempt on that profile succeeded, not
\* when the attempt ended with an error stop reason or was aborted
C34_GoodOnlyAfterSuccess ==
  [][(AttemptClassified /\ files' # files /\ GoodAndUsedInFile') => prev'.success]_vars


\* the last call on the registry was an abort that found the attempt and
\* returned true
AbortReturnedTrue == lastCall.op = "abort" /\ lastCall.result

\* C35: after abortEmbeddedPiRun returned true for a running attempt the run
\* starts no further attempt (no rotation, no capability retry), marks no
\* cooldown and returns a result flagged aborted, whether the timeout timer
\* of the attempt fires before the abort, after it or not at all
C35_AbortEndsRun ==
  AbortReturnedTrue =>
    /\ pc # "loop"
    /\ pc = "done" =>
         /\ runResult.kind = "returned"
         /\ aborted
         /\ prev.profile # None => ~CooldownRecorded(prev.profile, prev.stats)


\* the order the next run on the same store would resolve, with no
\* explicit order and no preferred profile
NextOrder == resolveAuthProfileOrder(NoConfig, files[agentDir], RunProvider, None, now)

\* profile q comes before profile id in list
ComesBefore(list, q, id) ==
  \E i \in 1..Len(list), j \in 1..Len(list) : i < j /\ list[i] = q /\ list[j] = id

\* C39: with no explicit order and no preferred profile, after a run has
\* succeeded on profile P the next resolution places P after every other
\* available profile of the same credential type that was used less recently
\* (before the time of the success)
C39_UsedProfileGoesLast ==
  (pc = "done" /\ prev.success /\ prev.profile # None /\ explicitProfileId = None) =>
    \A q \in Range(NextOrder) \ {prev.profile} :
      (/\ ~isProfileInCooldown(files[agentDir], q, now)
       /\ files[agentDir].profiles[q].type = files[agentDir].profiles[prev.profile].type
       /\ lastUsedOrZero(files[agentDir], q) < now)
        => ComesBefore(NextOrder, q, prev.profile)

(***************************************************************************)
(* Properties of the processes on the store file                           *)
(***************************************************************************)
\* C2: every write to the store file, by any operation, is made while the
\* writing process holds the lock on the file
C2_WritesHoldLock == lastWrite.locked

\* process p has applied a cooldown mark to profile id with the lock held
CooldownCommitted(p, id) ==
  /\ spc[p] = "done"
  /\ sop[p].kind = "cooldown"
  /\ sop[p].id = id
  /\ sres[p] = "saved"

\* C3: when the processes that mutate the store each acquire the lock, each
\* mutation is applied to the file as re-read under the lock, so the file
\* holds every mutation: it equals the store with the committed mutations
\* applied one after the other (two cooldown marks on one profile count
\* two errors, marks on different profiles both stay)
C3_LockedMutationsSurvive == ~tainted => TheFile = expected

\* two processes have marked the same profile in cooldown, each with the
\* lock, and the file counts both errors
C3_Witness ==
  /\ ~tainted
  /\ \E p \in Procs, q \in Procs :
       /\ p # q
       /\ CooldownCommitted(p, "p:oauth1")
       /\ CooldownCommitted(q, "p:oauth1")
  /\ TheFile.usageStats["p:oauth1"].errorCount
       = StoreFile0.usageStats["p:oauth1"].errorCount + 2

\* C4: the provider's token refresh is called only with the lock held, and
\* for one expiry it succeeds at most once: later lock holders find the
\* refreshed credential (a call the provider fails is not counted)
C4_RefreshOncePerExpiry ==
  \A i \in DOMAIN refreshLog :
    /\ refreshLog[i].locked
    /\ \A j \in DOMAIN refreshLog :
         (i # j /\ refreshLog[i].ok /\ refreshLog[j].ok)
           => refreshLog[i].expires # refreshLog[j].expires

\* the usage mark of process p went on without the lock and has returned
FellBack(p) == spc[p] = "fallback" /\ spc'[p] # "fallback"

\* C19: a usage mark whose lock was not acquired ends without an error: the
\* mutation is applied to the caller's copy of the store and the file is
\* then that copy; a mark that finds nothing to change in the copy (its
\* profile is not there) writes nothing, as under the lock.
C19_LockTimeoutFallsBack ==
  [][\A p \in Procs :
       FellBack(p) =>
         LET r == Update(At(sop[p], now), smem[p])
         IN /\ spc'[p] = "done"
            /\ smem'[p] = r.store
            /\ IF r.save
                 THEN sres'[p] = "saved" /\ TheFile' = r.store
                 ELSE sres'[p] = "unchanged" /\ TheFile' = TheFile]_vars

\* a cooldown mark that did not get the lock has written the file, with the
\* error count of the caller's copy raised by one
C19_Witness ==
  \E p \in Procs :
    /\ spc[p] = "done" /\ sop[p].kind = "cooldown" /\ sres[p] = "saved"
    /\ lastWrite = [by |-> p, op |-> "cooldown", locked |-> FALSE]
    /\ TheFile = smem[p]
    /\ TheFile.usageStats[sop[p].id].errorCount >= 1

\* every profile of the file before the step is a profile of the file after
ProfilesKept == \A id \in ProfileSet : HasProfile(TheFile, id) => HasProfile(TheFile', id)

\* C20: a profile that is in the store file stays in it, whatever the
\* processes do and however their operations interleave.
C20_ProfilesStay == [][ProfilesKept]_vars

\* while every write so far was made with the lock held, no profile leaves the file
ProfilesKeptWhileLocked == [][~tainted' => ProfilesKept]_vars

\* C37: a usage mark that goes on without the lock removes from the file
\* nothing another process has persisted: the statistics (a cooldown) and
\* the credential (a refreshed OAuth token) of every profile other than the
\* marked one are in the file after the write as they were before it
C37_FallbackKeepsOthers ==
  [][\A p \in Procs :
       FellBack(p) =>
         \A id \in ProfileSet \ {sop[p].id} :
           /\ TheFile'.usageStats[id] = TheFile.usageStats[id]
           /\ TheFile'.profiles[id] = TheFile.profiles[id]]_vars

(***************************************************************************)
(* Properties of the lanes                                                 *)
(***************************************************************************)
Executing(r) == rstate[r] = "running"

\* C1: at most one unit of work, run or compaction, of one conversation is
\* executing at any moment: a second request of the conversation starts
\* only when the first has finished
C1_OneUnitPerConversation ==
  \A r \in Requests, q \in Requests :
    (r # q /\ Executing(r) /\ Executing(q))
      => rparams[r].conversation # rparams[q].conversation

\* a run of a conversation executes while a compaction of the same
\* conversation waits on the session lane though the global lane has room
C1_Witness ==
  \E r \in Requests, q \in Requests :
    /\ r # q
    /\ Executing(r) /\ rparams[r].kind = "run"
    /\ rstate[q] = "squeued" /\ rparams[q].kind = "compact"
    /\ rparams[r].conversation = rparams[q].conversation
    /\ Cardinality(laneActive[globalLane]) < laneMaxConcurrent(globalLane)

Waiting(r) == rstate[r] \in {"squeued", "gqueued", "running"}

\* request r starts executing in this step
Starts(r) == rstate[r] # "running" /\ rstate'[r] = "running"

\* C38: the nested use of the lanes cannot deadlock: every request takes its
\* session lane first and the global lane second, so with every unit of
\* work terminating every enqueued request starts and completes (in the end
\* no request that arrived is left waiting, and none ends without having
\* executed), and the requests of one conversation start in the order they
\* arrived
C38_NoDeadlockInArrivalOrder ==
  /\ <>[](\A r \in Requests : ~Waiting(r))
  /\ [][\A r \in Requests :
          /\ rstate'[r] = "gqueued" => r \in laneActive'[rparams'[r].sessionLane]
          /\ rstate'[r] = "done" => rstate[r] \in {"running", "done"}
          /\ Starts(r) =>
               \A q \in Requests :
                 (q < r /\ rparams[q].conversation = rparams[r].conversation)
                   => rstate[q] \in {"running", "done"}]_vars

\* the global lane is full, and a compaction that holds its session lane
\* waits on the global lane
C38_Witness ==
  /\ Cardinality(laneActive[globalLane]) = laneMaxConcurrent(globalLane)
  /\ \E q \in Requests :
       /\ rstate[q] = "gqueued" /\ rparams[q].kind = "compact"
       /\ q \in laneActive[rparams[q].sessionLane]
       /\ \A r \in Requests \ {q} : Executing(r) /\ r < q

(***************************************************************************)
(* Properties of the registry                                              *)
(***************************************************************************)

\* C15: whenever an attempt ends, by success, error, abort or timeout, the
\* session's registry entry is gone, every waiter that was pending has been
\* resolved with true and no timer of the attempt is left set; and once the
\* run has finished the session is not reported active.
C15_CleanupAfterEveryAttempt ==
  /\ [][AttemptClassified =>
          /\ ~registered'
          /\ timers' = {}
          /\ waiters' = {}
          /\ \A w \in waiters : waitResult'[w] = "ended"]_vars
  /\ [](pc = "done" => ~isEmbeddedPiRunActive)

\* a timed-out attempt ended the run while both waiters were pending
C15_Witness ==
  /\ pc = "done"
  /\ timedOut
  /\ \A w \in Waiters : waitResult[w] = "ended"
  /\ ~registered /\ timers = {}


\* the run is in flight: an attempt is running, or one has ended and the
\* loop goes on towards the next
InFlight == pc = "prompt" \/ (pc = "loop" /\ prev # NoPrev)

\* C16: at every moment of a run in flight, the time between two attempts
\* included, the registry holds the session's entry, and an abort issued
\* then returns true and cancels the run.
C16_RegisteredWhileInFlight ==
  /\ [](InFlight => isEmbeddedPiRunActive)
  /\ [][(InFlight /\ AbortCall) => (lastCall'.result /\ aborted')]_vars


\* C17: abort, steer and the streaming query do nothing without a registered
\* attempt: each returns false and neither the run nor any attempt changes,
\* so a request that still waits is not cancelled by an abort.
C17_NoHandleNoEffect ==
  /\ [][(~registered /\ (AbortCall \/ SteerCall)) =>
          (~lastCall'.result /\ UNCHANGED <<runVars, steered>>)]_vars
  /\ [](~registered => \A streaming \in BOOLEAN : ~isEmbeddedPiRunStreaming(streaming))

\* an abort issued while the request had not started returned false, and the
\* run then ended with a successful attempt
C17_Witness ==
  /\ lastCall = [op |-> "abort", result |-> FALSE, at |-> "init"]
  /\ pc = "done"
  /\ prev.success
  /\ runResult.kind = "returned"


\* the wait of caller w has resolved with true
ResolvedTrue(w) == waitResult[w] \in {"ended", "inactive"}

\* C36: waitForEmbeddedPiRunEnd resolves exactly once: true when the run has
\* ended, at once when none is active, false when its timer fires first; and
\* once it has resolved true no further attempt of that run starts
C36_WaitResolvesAtRunEnd ==
  /\ [][\A w \in Waiters :
          /\ waitResult[w] \in {"ended", "inactive", "timeout"} => waitResult'[w] = waitResult[w]
          /\ (waitResult[w] = "idle" /\ waitResult'[w] = "inactive") => ~InFlight
          /\ (waitResult[w] = "pending" /\ waitResult'[w] = "timeout") => WaiterTimeout(w)
          /\ (ResolvedTrue(w) /\ InFlight) => ~AttemptStart]_vars


(***************************************************************************)
(* Properties of the functions                                             *)
(***************************************************************************)

\* the cooldown schedule in milliseconds: 1 min, 5 min, 25 min, then 1 hour
Schedule(n) ==
  CASE n = 1 -> 60000
    [] n = 2 -> 300000
    [] n = 3 -> 1500000
    [] OTHER -> 3600000

\* C21: for every error count n >= 1 the cooldown is the schedule value
\* min(1 hour, 1 minute * 5^min(n-1, 3)); it does not decrease from n to
\* n + 1 and is never more than one hour.
C21_CooldownSchedule ==
  (callOut # NoCall /\ callIn.errorCount >= 1) =>
    /\ callOut.value = Schedule(callIn.errorCount)
    /\ callOut.value <= calculateAuthProfileCooldownMs(callIn.errorCount + 1)
    /\ callOut.value <= 60 * 60 * 1000

\* the fifth error in a row: the cooldown is one hour, as for the fourth
C21_Witness ==
  /\ callIn = [errorCount |-> 5]
  /\ callOut = Returned1(3600000)


\* the step is a call of markAuthProfileCooldown
CooldownCalled == callOut'.calls = callOut.calls + 1 /\ callIn'.fn = "cooldown"

CoolingAt(id) ==
  /\ callIn.store.usageStats[id] # NoStats
  /\ callIn.store.usageStats[id].cooldownUntil > callIn.t

\* positions i < j of the output hold a cooldown profile before an
\* available one, or two cooldown profiles with the later expiry first
CooldownOutOfPlace(i, j) ==
  LET a == callOut.value[i]
      b == callOut.value[j]
  IN /\ i < j
     /\ CoolingAt(a)
     /\ \/ ~CoolingAt(b)
        \/ /\ CoolingAt(b)
           /\ callIn.store.usageStats[a].cooldownUntil > callIn.store.usageStats[b].cooldownUntil

\* the positions of the output other than that of a preferredProfile moved to the front
NotPreferred ==
  IF callOut.value # <<>> /\ callOut.value[1] = callIn.preferredProfile
    THEN 2..Len(callOut.value) ELSE 1..Len(callOut.value)

\* C23 as stated: in the resolver's output no profile in cooldown comes
\* before a profile without an active cooldown, and the cooldown profiles
\* come soonest expiry first.
C23_CooldownNeverFirst ==
  callOut # NoCall =>
    \A i \in 1..Len(callOut.value), j \in 1..Len(callOut.value) : ~CooldownOutOfPlace(i, j)

\* C23 amended: without an explicit order in the config, and apart from a
\* preferredProfile moved to the front, no profile in cooldown comes before a
\* profile without an active cooldown, and the cooldown profiles come
\* soonest expiry first.
C23_CooldownLastByMode ==
  (callOut # NoCall /\ callIn.cfg.order = NoOrder) =>
    \A i \in NotPreferred, j \in NotPreferred : ~CooldownOutOfPlace(i, j)

\* an oauth profile in cooldown comes after an available api_key profile,
\* and two cooldown profiles with different expiries are in the output
C23_Witness ==
  /\ callOut # NoCall
  /\ callIn.cfg = NoConfig /\ callIn.preferredProfile = None
  /\ Len(callOut.value) = 3
  /\ ~CoolingAt(callOut.value[1]) /\ callIn.store.profiles[callOut.value[1]].type = "api_key"
  /\ CoolingAt(callOut.value[2]) /\ callIn.store.profiles[callOut.value[2]].type = "oauth"
  /\ CoolingAt(callOut.value[3])
  /\ callIn.store.usageStats[callOut.value[2]].cooldownUntil
       < callIn.store.usageStats[callOut.value[3]].cooldownUntil


\* the config declares an order for the provider, and the call has returned
ExplicitOrderResolved == callOut # NoCall /\ callIn.cfg.order # NoOrder

\* where an id comes first in the configured order
FirstIn(order, id) == CHOOSE i \in 1..Len(order) : order[i] = id /\ \A j \in 1..(i - 1) : order[j] # id

\* the output lists exactly the ids of the set once each, in the order of
\* their first places in the configured order, but for preferredProfile,
\* which is first when it is one of them
ListsInConfiguredOrder(ids) ==
  LET out == callOut.value
  IN /\ Range(out) = ids
     /\ Len(out) = Cardinality(ids)
     /\ callIn.preferredProfile \in ids => out[1] = callIn.preferredProfile
     /\ \A i \in NotPreferred, j \in NotPreferred :
          i < j => FirstIn(callIn.cfg.order, out[i]) < FirstIn(callIn.cfg.order, out[j])

\* the stored credential of the id belongs to another provider
OfOtherProvider(id) ==
  /\ callIn.store.profiles[id] # NoCred
  /\ callIn.store.profiles[id].provider # callIn.provider

Declared ==
  {id \in ProfileSet : /\ callIn.cfg.profiles[id] # NoCfgProfile
                       /\ callIn.cfg.profiles[id].provider = callIn.provider}

Candidates ==
  IF Declared # {} THEN {id \in Declared : ~OfOtherProvider(id)}
  ELSE {id \in ProfileSet : /\ callIn.store.profiles[id] # NoCred
                            /\ callIn.store.profiles[id].provider = callIn.provider}

\* oauth before token before api_key, a candidate without a credential last
TypeRank(id) ==
  IF callIn.store.profiles[id] = NoCred THEN 3
  ELSE CASE callIn.store.profiles[id].type = "oauth" -> 0
         [] callIn.store.profiles[id].type = "token" -> 1
         [] OTHER -> 2

LastUsedOf(id) ==
  IF callIn.store.usageStats[id] = NoStats \/ callIn.store.usageStats[id].lastUsed = Undef
    THEN 0 ELSE callIn.store.usageStats[id].lastUsed

\* a may stand before b: an available profile before one in cooldown, and
\* of two available ones the lower type rank, then the earlier lastUsed
MayPrecede(a, b) ==
  /\ CoolingAt(a) => CoolingAt(b)
  /\ (~CoolingAt(a) /\ ~CoolingAt(b)) =>
       \/ TypeRank(a) < TypeRank(b)
       \/ TypeRank(a) = TypeRank(b) /\ LastUsedOf(a) <= LastUsedOf(b)

\* C25: without an explicit order the output holds every candidate once:
\* the available ones by type rank (oauth, token, api_key) and then by
\* lastUsed ascending, after them those in cooldown, with preferredProfile
\* first if it is a candidate; the store's lastGood does not change it.
C25_OrderByMode ==
  (callOut # NoCall /\ callIn.cfg.order = NoOrder) =>
    LET out == callOut.value
    IN /\ Range(out) = Candidates
       /\ Len(out) = Cardinality(Candidates)
       /\ callIn.preferredProfile \in Candidates => out[1] = callIn.preferredProfile
       /\ \A i \in NotPreferred, j \in NotPreferred : i < j => MayPrecede(out[i], out[j])
       /\ \A g \in ProfileSet :
            resolveAuthProfileOrder(callIn.cfg,
                                    [callIn.store EXCEPT !.lastGood[callIn.provider] = g],
                                    callIn.provider, callIn.preferredProfile, callIn.t) = out

\* the preferred api_key profile is first; behind it an oauth profile used
\* before comes ahead of an api_key profile never used
C25_Witness ==
  /\ callOut = Returned1(<<"p:b", "p:oauth1", "p:a">>)
  /\ callIn.cfg = NoConfig /\ callIn.preferredProfile = "p:b"
  /\ callIn.store.profiles["p:oauth1"].type = "oauth" /\ LastUsedOf("p:oauth1") = 5000
  /\ callIn.store.profiles["p:a"].type = "api_key" /\ LastUsedOf("p:a") = 0
  /\ ~CoolingAt("p:oauth1") /\ ~CoolingAt("p:a")


\* C26: a load deletes the legacy auth.json only when it has written the
\* migrated store as the new auth-profiles.json; a load whose write fails
\* leaves the legacy file as it was; no load creates a legacy file; and every
\* load after the migrating one returns the store the migrating load returned.
LoadMade == Len(callOut'.loads) = Len(callOut.loads) + 1

LastLoad == callOut'.loads[Len(callOut'.loads)]

HoldsLegacy(file, legacyRaw) ==
  /\ file \notin {Missing, Corrupt}
  /\ \A k \in LegacyKeys :
       legacyRaw.entries[k] # NoCred /\ legacyRaw.entries[k].type # "bogus"
         => /\ file.profiles[DefaultIdOf(k)] # NoCred
            /\ file.profiles[DefaultIdOf(k)].type = legacyRaw.entries[k].type
            /\ file.profiles[DefaultIdOf(k)].secret = legacyRaw.entries[k].secret

C26_MigrationDeletesAfterWrite ==
  [][LoadMade =>
       /\ callIn.legacy # Missing /\ callIn'.legacy = Missing
            => /\ ~LastLoad.threw
               /\ files'[DefaultDir] = LastLoad.store
               /\ HoldsLegacy(files'[DefaultDir], callIn.legacy)
       /\ LastLoad.threw => callIn'.legacy = callIn.legacy
       /\ callIn.legacy = Missing => callIn'.legacy = Missing
       /\ \A i \in 1..Len(callOut.loads) :
            callOut.loads[i].migrated
              => /\ ~LastLoad.threw
                 /\ LastLoad.store = callOut.loads[i].store
                 /\ files' = files]_vars

C26_Witness ==
  /\ Len(callOut.loads) = 3
  /\ callOut.loads[1].threw
  /\ callOut.loads[2].migrated
  /\ callOut.loads[3].store = callOut.loads[2].store
  /\ callOut.loads[3].store.profiles[LegacyDefaultId] # NoCred
  /\ callIn.legacy = Missing
  /\ files[DefaultDir] = callOut.loads[2].store
  /\ ticks > 0


\* C27: the sync leaves the stored credential of a reserved profile id as it
\* is when the external credential for that id expires earlier than the
\* stored one.
ExternalFor(id) == IF id = CLAUDE_CLI_PROFILE_ID THEN callIn.claude ELSE callIn.codex

ReservedIds == {CLAUDE_CLI_PROFILE_ID, CODEX_CLI_PROFILE_ID}

C27_OlderNeverOverwrites ==
  callOut # NoCall =>
    \A id \in ReservedIds :
      LET stored == callIn.store.profiles[id]
          external == ExternalFor(id)
      IN /\ stored # NoCred
         /\ external # NoCred
         /\ stored.expires # Undef
         /\ external.expires < stored.expires
         => callOut.value.store.profiles[id] = stored

\* C28: the sync never leaves a reserved profile id with a credential of a
\* weaker type than the one stored before: oauth is stronger than a static
\* token, a token stronger than an api key.
TypeStrength(cred) ==
  CASE cred.type = "oauth" -> 2
    [] cred.type = "token" -> 1
    [] OTHER -> 0

C28_NoWeakerType ==
  callOut # NoCall =>
    \A id \in ReservedIds :
      LET stored == callIn.store.profiles[id]
      IN stored # NoCred
           => TypeStrength(callOut.value.store.profiles[id]) >= TypeStrength(stored)


\* C29: when the config declares the profile with another provider than the
\* stored credential's, or with a mode that is not the credential's type,
\* the key resolution returns no key, takes no lock, calls no refresh and
\* leaves the store file as it was.
CalledConfig == callIn.cfg.profiles[callIn.profileId]

CalledCred == callIn.store.profiles[callIn.profileId]

NoKeyAndNoEffect ==
  /\ callOut.out = NullKey
  /\ callOut.events = <<>>
  /\ files[DefaultDir] = callIn.store

C29_MismatchYieldsNoKey ==
  /\ callOut # NoCall
  /\ CalledConfig # NoCfgProfile
  /\ CalledCred # NoCred
  /\ CalledConfig.provider # CalledCred.provider \/ CalledConfig.mode # CalledCred.type
  => NoKeyAndNoEffect

\* C29 as the code has it: a config mode "oauth" counts as matching a stored
\* token credential; every other disagreement yields no key and no effect.
C29_MismatchYieldsNoKeyButTokenAsOAuth ==
  /\ callOut # NoCall
  /\ CalledConfig # NoCfgProfile
  /\ CalledCred # NoCred
  /\ \/ CalledConfig.provider # CalledCred.provider
     \/ /\ CalledConfig.mode # CalledCred.type
        /\ ~(CalledConfig.mode = "oauth" /\ CalledCred.type = "token")
  => NoKeyAndNoEffect

C29_Witness ==
  /\ callOut # NoCall
  /\ CalledConfig # NoCfgProfile
  /\ CalledConfig.provider = "p"
  /\ CalledConfig.mode = "api_key"
  /\ CalledCred # NoCred
  /\ CalledCred.type = "oauth"
  /\ CalledCred.expires < now
  /\ NoKeyAndNoEffect


\* C30: after the refresh of the called profile has failed, another profile
\* is tried only if the called id is a legacy "default" id and the other one
\* is an oauth profile of the same provider picked by the configured email,
\* by last good or as the only other oauth profile; for any other called id
\* the call throws and no other profile is tried.
TriedInstead == {callOut.events[i].id : i \in {j \in 1..Len(callOut.events) :
                                                 callOut.events[j].op = "fallback"}}

RefreshFailed ==
  \E i \in 1..Len(callOut.events) : callOut.events[i] = Did("failed", callIn.profileId)

OtherOAuthProfiles ==
  {id \in ResolveSet \ {callIn.profileId} :
     /\ callIn.store.profiles[id] # NoCred
     /\ callIn.store.profiles[id].type = "oauth"
     /\ callIn.store.profiles[id].provider = CalledCred.provider}

PickedByEmail(id) ==
  /\ CalledConfig # NoCfgProfile
  /\ CalledConfig.email # None
  /\ \/ callIn.store.profiles[id].email = CalledConfig.email
     \/ id = CalledCred.provider \o ":" \o CalledConfig.email

PickedByLastGood(id) == callIn.store.lastGood[CalledCred.provider] = id

OnlyOther(id) == OtherOAuthProfiles = {id}

OnlyEmailLike(id) ==
  {other \in OtherOAuthProfiles : isEmailLike(getProfileSuffix(other))} = {id}

OwnKeyOrThrown ==
  \/ callOut.out = ThrownError
  \/ callOut.out.kind = "key" /\ callOut.out.profileId = callIn.profileId

ShownWhole(text, secret) ==
  \E i \in 0..(Len(text) - Len(secret)) : SubSeq(text, i + 1, i + Len(secret)) = secret

ShownChars(text, n) == Cardinality({i \in 1..n : KeyChar(i) \in Range(text)})

C31_SecretsAreMasked ==
  callOut # NoCall /\ callIn.n > 0 =>
    /\ ~ShownWhole(callOut.value, SecretOf(callIn.n, FALSE))
    /\ ShownChars(callOut.value, callIn.n) < callIn.n


\* C32: every message enqueued is handed to onFlush once and no more: it is
\* either pending or in one batch, and in the end in a batch; a batch holds
\* the messages of one key in arrival order; the messages pending for a key
\* are handed over together; a message with an attachment or a command
\* prefix is handed over in the step that enqueues it, right after the batch
\* then pending for its key.
TimesFlushed(message) ==
  Cardinality({<<b, i>> \in (1..Len(callOut.flushed)) \X (1..MaxMessages) :
                 i <= Len(callOut.flushed[b]) /\ callOut.flushed[b][i] = message})

TimesPending(message) ==
  IF callOut.pending[message.key] = NoEntry THEN 0
  ELSE Cardinality({i \in 1..Len(callOut.pending[message.key].messages) :
                      callOut.pending[message.key].messages[i] = message})

InArrivalOrder(batch) ==
  \A i, j \in 1..Len(batch) :
    i < j => batch[i].id < batch[j].id /\ batch[i].key = batch[j].key

Immediate(message) == message.attachment \/ message.command

OncePendingOrFlushed ==
  /\ \A n \in 1..Len(callIn.sent) :
       /\ TimesFlushed(callIn.sent[n]) + TimesPending(callIn.sent[n]) = 1
       /\ Immediate(callIn.sent[n]) => TimesFlushed(callIn.sent[n]) = 1
  /\ \A b \in 1..Len(callOut.flushed) :
       /\ callOut.flushed[b] # <<>>
       /\ InArrivalOrder(callOut.flushed[b])
       /\ \A i \in 1..Len(callOut.flushed[b]) : callOut.flushed[b][i] \in Range(callIn.sent)
  /\ \A k \in DebounceKeys :
       callOut.pending[k] # NoEntry => InArrivalOrder(callOut.pending[k].messages)

PendingBatch(k) ==
  IF callOut.pending[k] = NoEntry THEN <<>> ELSE <<callOut.pending[k].messages>>

HandedOverInOrder ==
  /\ callIn' # callIn =>
       LET message == callIn'.sent[Len(callIn'.sent)]
       IN IF Immediate(message)
            THEN /\ callOut'.flushed =
                      callOut.flushed \o PendingBatch(message.key) \o <<(<<message>>)>>
                 /\ callOut'.pending = [callOut.pending EXCEPT ![message.key] = NoEntry]
            ELSE /\ callOut'.flushed = callOut.flushed
                 /\ callOut'.pending[message.key].messages =
                      (IF callOut.pending[message.key] = NoEntry
                         THEN <<>> ELSE callOut.pending[message.key].messages)
                        \o <<message>>
  /\ \A k \in DebounceKeys :
       callOut.pending[k] # NoEntry /\ callOut'.pending[k] = NoEntry
         => \E b \in 1..Len(callOut'.flushed) :
              /\ b > Len(callOut.flushed)
              /\ callOut'.flushed[b] = callOut.pending[k].messages

C32_EveryMessageFlushedOnce ==
  /\ []OncePendingOrFlushed
  /\ [][HandedOverInOrder]_vars
  /\ \A n \in 1..MaxMessages :
       (Len(callIn.sent) >= n) ~> (Len(callIn.sent) >= n /\ TimesFlushed(callIn.sent[n]) = 1)

C32_Witness ==
  /\ Len(callIn.sent) = MaxMessages
  /\ \A n \in 1..MaxMessages : TimesFlushed(callIn.sent[n]) = 1
  /\ \E b \in 1..Len(callOut.flushed) :
       /\ b < Len(callOut.flushed)
       /\ Len(callOut.flushed[b]) >= 2
       /\ callOut.flushed[b + 1][1].key = callOut.flushed[b][1].key
       /\ Immediate(callOut.flushed[b + 1][1])

\* C40: a chat message from an unauthorized sender never aborts a running
\* run and never marks the session as aborted, whether it is "/stop" or any
\* other abort trigger text
C40_UnauthorizedNeverAborts ==
  (callOut # NoCall /\ ~callIn.authorized) =>
    /\ ~(callOut.abortCalled /\ callIn.active)
    /\ callOut.marked = None

====
